---- MODULE Spec2Model ----
(***************************************************************************)
(* Clipboard history store: the SQLite/GORM record store with its blob     *)
(* directory (internal/storage/sqlite) and the orchestration service       *)
(* (internal/service) that turns clipboard changes into stored records.    *)
(*                                                                         *)
(* Every database statement and every file-system call of the Go code is   *)
(* one atomic step; the steps of concurrent calls interleave freely (the   *)
(* single pooled connection serialises statements, not whole calls).       *)
(***************************************************************************)
EXTENDS Integers, Sequences, FiniteSets, TLC

(* ---------------- program constants ---------------- *)

\* storage.MaxInlineStorageSize = 10 * 1024 * 1024
MaxInlineStorageSize == 10485760

\* storage.MaxStorageSize = 100 * 1024 * 1024
MaxStorageSize == 104857600

(* ---------------- bounds of the model ---------------- *)

\* concurrent callers / goroutines
NumThreads == 2

\* API calls (Store, Get, Delete, MarkAsSynced, GetClipByIndex, PasteByIndex)
\* started in one behaviour
MaxCalls == 3

\* clipboard changes delivered by the monitor
MaxChanges == 2

\* handlers registered with the service
MaxHandlers == 2

\* records in the table the queries run on
MaxRows == 2

(* ---------------- payloads ---------------- *)

\* A payload is a run of len bytes of value fill; the nil/empty slice has len 0.
EmptyContent == [fill |-> "", len |-> 0]

Fills == {"a", "b"}

Lens == {MaxInlineStorageSize, MaxInlineStorageSize + 1, MaxStorageSize + 1}

Payloads ==
    {p \in [fill : Fills, len : Lens] : p.fill = "a" \/ p.len = MaxInlineStorageSize + 1}

ClipTypes == {"text", "image"}

\* types.Metadata: SourceApp, Category, Tags
NoMetadata == [sourceApp |-> <<>>, category |-> <<>>, tags |-> <<>>]

\* the metadata Store is called with
Metadatas == {NoMetadata, [NoMetadata EXCEPT !.sourceApp = <<"b">>]}

Threads == 1 .. NumThreads

(* ---------------- strings ---------------- *)

\* A string whose characters matter (a hash, a search term, a tag) is the sequence of
\* its characters; <<>> is the empty string.

HexDigits == <<"0", "1", "2", "3", "4", "5", "6", "7", "8", "9",
               "a", "b", "c", "d", "e", "f">>

RECURSIVE ToHex(_)

\* lower-case hexadecimal digits of n
ToHex(n) ==
    IF n < 16 THEN <<HexDigits[n + 1]>>
    ELSE ToHex(n \div 16) \o <<HexDigits[(n % 16) + 1]>>

\* the ASCII code of a payload byte, in hex
ByteHex(b) ==
    IF b = "a" THEN <<"6", "1">>
    ELSE IF b = "b" THEN <<"6", "2">>
    ELSE IF b = "A" THEN <<"4", "1">>
    ELSE <<"0", "0">>

\* calculateHash: hex.EncodeToString of the SHA-256 of the bytes, modelled as an
\* injective function from payloads to strings of lower-case hex digits
calculateHash(content) == ByteHex(content.fill) \o ToHex(content.len)

(* ---------------- errors ---------------- *)

ErrNone == ""
ErrFileTooLarge == "file size exceeds maximum allowed size"
ErrRecordNotFound == "record not found"
ErrWriteFile == "failed to write file"
ErrCreate == "failed to create clip"
ErrReadFile == "failed to read external content"
ErrRemoveFile == "failed to delete external file"
ErrNoClip == "no clip found with id"

\* ClipboardError messages of GetClipByIndex, PasteByIndex and SetClipboard
ErrListClips == "failed to retrieve clips"
ErrClipNotFound == "clip not found"
ErrRetrieveClip == "failed to retrieve clip"
ErrSetClipboard == "failed to set clipboard content"

\* the Go runtime panic of an out-of-range slice index: the call does not return
PanicIndex == "panic: runtime error: index out of range"

\* errno values of the file-system calls
ENOENT == "ENOENT"
EIO == "EIO"

(* ---------------- state ---------------- *)

VARIABLES
    rows,       \* table clip_models: rows[i] is the row with primary key i
    files,      \* blob directory: set of [name, data]
    clock,      \* wall clock read by time.Now(); later statements read later times
    th,         \* per thread: the storage call it is executing
    calls,      \* number of API calls started
    firstStore, \* history: for each row created, the row, its id, hash, bytes and
                \* lastUsed, and the blob file found under the hash at that moment
                \* (empty: no file)
    deletedOk,  \* history: for each Delete that returned nil, the id, whether the row
                \* was external, and whether its blob file was there at the return
    pasted,     \* history: the monitor.SetContent invocations, [clip, failed] each
    handlers,   \* ClipboardService.handlers
    mu,         \* ClipboardService.mu: [w |-> writer holds it, r |-> number of readers]
    wg,         \* ClipboardService.wg counter
    monitor,    \* "idle" | "running" | "closing" (stopChan closed, poller alive) | "stopped"
    stop,       \* Stop(): "none" | "waiting" | "returned_ok" | "returned_err"
    tasks,      \* per thread: the change-handling goroutine it runs
    changes,    \* number of clipboard changes delivered
    reg,        \* the RegisterHandler call in progress: the handler being added,
                \* its caller (0, or the goroutine whose handler makes the call) and
                \* "none" | "waiting" (blocked in s.mu.Lock()) | "locked"
    inFlightAtStop \* history: goroutines still running when Stop() returned

storeVars == <<rows, files, clock, th, calls, firstStore, deletedOk, pasted>>
svcVars == <<handlers, mu, wg, monitor, stop, tasks, changes, reg, inFlightAtStop>>
vars == <<rows, files, clock, th, calls, firstStore, deletedOk, pasted,
          handlers, mu, wg, monitor, stop, tasks, changes, reg, inFlightAtStop>>

(* ---------------- ClipModel rows ---------------- *)

\* the zero ClipModel
ClipModel ==
    [id |-> 0, contentHash |-> <<>>, content |-> EmptyContent, storagePath |-> <<>>,
     isExternal |-> FALSE, size |-> 0, type |-> "", sourceApp |-> <<>>,
     category |-> <<>>, tags |-> <<>>, lastUsed |-> 0, createdAt |-> 0,
     synced |-> FALSE, deleted |-> FALSE]

\* ClipModel.ToClip
ToClip(cm) ==
    [id |-> cm.id, content |-> cm.content, type |-> cm.type, createdAt |-> cm.createdAt]

NoClip == ToClip(ClipModel)

\* rows a query sees: gorm.Model's DeletedAt makes every query skip soft-deleted rows
LiveIds(rws) == {i \in 1 .. Len(rws) : ~rws[i].deleted}

\* time.Now()
TimeNow == clock

\* (mutant) the lookup without its Where clause: First returns the first live row
FindByHashNoWhere(rws, h) ==
    {i \in LiveIds(rws) : \A j \in LiveIds(rws) : i <= j}

\* db.Where("content_hash = ?", h).First(&existing): the live row with that hash
\* and the smallest primary key, as a set of at most one id
FindByHash(rws, h) ==
    LET hit == {i \in LiveIds(rws) : rws[i].contentHash = h}
    IN  {i \in hit : \A j \in hit : i <= j}

\* db.First(&model, id)
FindById(rws, id) == {i \in LiveIds(rws) : i = id}

\* the unique index on content_hash covers every row of the table, soft-deleted or not
HashTaken(rws, h) == \E i \in 1 .. Len(rws) : rws[i].contentHash = h

\* BeforeSave hook: stamps LastUsed on every Create and Save
BeforeSave(cm, now) == [cm EXCEPT !.lastUsed = now]

\* (mutant) Create on a table whose content_hash index is not unique
CreateRowNoUnique(rws, cm, now) ==
    [ok |-> TRUE,
     rows |-> Append(rws, [cm EXCEPT !.lastUsed = now, !.id = Len(rws) + 1,
                                     !.createdAt = now])]

\* db.Create(model): [ok, rows]
CreateRow(rws, cm, now) ==
    IF HashTaken(rws, cm.contentHash)
    THEN [ok |-> FALSE, rows |-> rws]
    ELSE [ok |-> TRUE,
          rows |-> Append(rws, [BeforeSave(cm, now) EXCEPT !.id = Len(rws) + 1,
                                                           !.createdAt = now])]

\* (mutant) a Save that stamps created_at as Create does
SaveRowStampsCreated(rws, cm, now, upsert) ==
    IF cm.id \in LiveIds(rws) \/ (upsert /\ cm.id \in 1 .. Len(rws))
    THEN [rws EXCEPT ![cm.id] = [cm EXCEPT !.lastUsed = now, !.createdAt = now]]
    ELSE rws

\* db.Save(&model) with a primary key: writes every column of the struct to the
\* live row.  When the row is no longer live the UPDATE matches nothing; the
\* library then either leaves the table alone or re-inserts the struct over the
\* primary key (upsert), depending on its version.
SaveRow(rws, cm, now, upsert) ==
    IF cm.id \in LiveIds(rws) \/ (upsert /\ cm.id \in 1 .. Len(rws))
    THEN [rws EXCEPT ![cm.id] = BeforeSave(cm, now)]
    ELSE rws

\* (mutant) the ceiling compared in KiB against a limit in bytes
TooLargeKiB(size) == size \div 1024 > MaxStorageSize

\* size > storage.MaxStorageSize
TooLarge(size) == size > MaxStorageSize

\* (mutant) the threshold itself placed externally
PlacedExternalAtThreshold(size) == size >= MaxInlineStorageSize

\* size > storage.MaxInlineStorageSize
PlacedExternal(size) == size > MaxInlineStorageSize

\* os.WriteFile(path, content): creates or truncates the file
WriteFile(fs, name, data) == {f \in fs : f.name # name} \cup {[name |-> name, data |-> data]}

\* the error os.WriteFile(path, content) returns
WriteErr(fault) == IF fault THEN EIO ELSE ErrNone

\* (mutant) Store ignoring the result of os.WriteFile
WriteFailedIgnored(err) == FALSE

\* Store: if err := os.WriteFile(...); err != nil
WriteFailed(err) == err # ErrNone

\* os.Remove(path)
RemoveFile(fs, name) == {f \in fs : f.name # name}

\* the error os.Remove(path) returns: an I/O fault, or ENOENT for a missing file
RemoveErr(fs, name, fault) ==
    IF fault THEN EIO
    ELSE IF \E f \in fs : f.name = name THEN ErrNone ELSE ENOENT

\* (mutant) Delete without its os.IsNotExist exemption
RemoveFailedStrict(err) == err # ErrNone

\* Delete: err != nil && !os.IsNotExist(err)
RemoveFailed(err) == err # ErrNone /\ err # ENOENT

FileExists(fs, name) == \E f \in fs : f.name = name

\* (mutant) a read that returns no bytes
ReadFileEmpty(fs, name) == EmptyContent

\* os.ReadFile(path) of an existing file
ReadFile(fs, name) == (CHOOSE f \in fs : f.name = name).data

(* ---------------- threads ---------------- *)

Result(err, clip) == [err |-> err, clip |-> clip]

IdleThread ==
    [op |-> "none", pc |-> "idle", content |-> EmptyContent, type |-> "", id |-> 0,
     model |-> ClipModel, res |-> Result(ErrNone, NoClip), dedup |-> FALSE,
     live |-> FALSE, clash |-> FALSE, rm |-> "none", wrote |-> "none", seen |-> 0,
     n |-> 0, models |-> <<>>, k |-> 0, at |-> <<>>, lookup |-> "none",
     got |-> NoClip, sets |-> 0, was |-> FALSE, opts |-> <<>>, out |-> <<>>,
     vault |-> <<>>, cut |-> {}]

\* IdleThread.vault: the entries the export job has written to the vault notes, by
\* the id of the clip, in the order written; cut (history): the clips at which a
\* pass of the job was stopped after writing the entry and before marking it.

\* IdleThread.opts: the ListFilter or SearchOptions argument; out: the clips List or
\* Search returns.
\* IdleThread.was (history): the row MarkAsSynced names was live and already synced.
\* IdleThread.dedup: Store took the "content exists" branch.
\* IdleThread.live (history): a live row with the hash (Store) or the id (Get)
\* existed when the call was made.
\* IdleThread.clash (history): another Store of the same bytes ran during this one.
\* IdleThread.rm (history): what Delete's os.Remove returned ("none": not called).
\* IdleThread.wrote (history): what Store's os.WriteFile returned ("none": not called).
\* IdleThread.seen (history): the lastUsed Get read from the row.
\* IdleThread.n: the index argument; models: what List's Find returned; k: how many
\* of them the loop of List has turned into clips.
\* IdleThread.at (history): the table when List's Find ran.
\* IdleThread.lookup (history): the error of the GetClipByIndex inside PasteByIndex.
\* IdleThread.got: the clip GetClipByIndex resolved.
\* IdleThread.sets (history): which monitor.SetContent invocation this call made (0: none).

IdleTask ==
    [active |-> FALSE, clip |-> [content |-> EmptyContent, type |-> ""],
     pc |-> "none", outcome |-> "none", snap |-> <<>>, notified |-> <<>>,
     rlocked |-> FALSE, seq |-> 0]

\* IdleTask.snap: the goroutine's copy of s.handlers; notified: the handlers it has
\* invoked and that have returned; rlocked: it holds s.mu for reading; seq: the
\* number of the change it handles, in the order the monitor delivered them.

\* no RegisterHandler call is in progress
NoReg == [h |-> 0, by |-> 0, pc |-> "none"]

Init ==
    /\ rows = <<>>
    /\ files = {}
    /\ clock = 1
    /\ th = [t \in Threads |-> IdleThread]
    /\ calls = 0
    /\ firstStore = {}
    /\ deletedOk = {}
    /\ pasted = <<>>
    /\ handlers = <<>>
    /\ mu = [w |-> FALSE, r |-> 0]
    /\ wg = 0
    /\ monitor = "idle"
    /\ stop = "none"
    /\ tasks = [t \in Threads |-> IdleTask]
    /\ changes = 0
    /\ reg = NoReg
    /\ inFlightAtStop = {}

\* the call returns (err, clip); its locals go out of scope
Done(t, err, clip) ==
    [th[t] EXCEPT !.pc = "done", !.res = Result(err, clip), !.model = ClipModel]

\* the thread is not inside a call and runs no goroutine of the service
Idle(t) == th[t].pc \in {"idle", "done"} /\ ~tasks[t].active

\* threads are interchangeable: a new call or goroutine takes the first idle one
Free(t) == Idle(t) /\ \A u \in Threads : u < t => ~Idle(u)

\* another Store of the same bytes is in progress
StoreOverlap(t, content) ==
    \E u \in Threads \ {t} :
        th[u].op = "store" /\ th[u].pc # "done" /\ th[u].content = content

(* ---------------- SQLiteStorage.Store ---------------- *)

\* Store up to the lookup of an existing row: size check, hash, First by content_hash
StoreEnter(t, content, type, metadata) ==
    LET size == content.len
        contentHash == calculateHash(content)
        hit == FindByHash(rows, contentHash)
        base == [IdleThread EXCEPT !.op = "store", !.content = content, !.type = type,
                                   !.live = \E i \in LiveIds(rows) :
                                              rows[i].contentHash = contentHash,
                                   !.clash = StoreOverlap(t, content)]
        mine ==
            IF TooLarge(size)
            THEN [base EXCEPT !.pc = "done", !.res = Result(ErrFileTooLarge, NoClip)]
            ELSE IF hit # {}
            THEN [base EXCEPT !.pc = "store_touch", !.dedup = TRUE,
                              !.model = rows[CHOOSE i \in hit : TRUE]]
            ELSE [base EXCEPT
                    !.pc = IF PlacedExternal(size) THEN "store_write" ELSE "store_create",
                    !.model = [ClipModel EXCEPT
                                 !.contentHash = contentHash, !.type = type, !.size = size,
                                 !.sourceApp = metadata.sourceApp,
                                 !.category = metadata.category,
                                 !.tags = metadata.tags,
                                 !.lastUsed = TimeNow,
                                 !.content = IF PlacedExternal(size) THEN EmptyContent
                                             ELSE content]]
    IN  [u \in Threads |->
            IF u = t THEN mine
            ELSE IF StoreOverlap(t, content) /\ th[u].op = "store" /\ th[u].pc # "done"
                    /\ th[u].content = content
            THEN [th[u] EXCEPT !.clash = TRUE]
            ELSE th[u]]

\* a caller invokes Store(ctx, content, clipType, metadata) with content from P and
\* metadata from M
StoreCallOf(t, P, M) ==
    /\ Free(t)
    /\ calls < MaxCalls
    /\ \E content \in P, type \in ClipTypes, metadata \in M :
          th' = StoreEnter(t, content, type, metadata)
    /\ calls' = calls + 1
    /\ UNCHANGED <<rows, files, clock, firstStore, deletedOk, pasted>>
    /\ UNCHANGED svcVars

\* callers that pass no metadata
StoreCall(t) == StoreCallOf(t, Payloads, {NoMetadata})

\* callers that pass metadata or none, with content on either side of the
\* inline threshold
StoreCallMeta(t) ==
    StoreCallOf(t, {p \in Payloads : p.len = MaxInlineStorageSize
                                      \/ (p.fill = "b" /\ p.len = MaxInlineStorageSize + 1)},
                Metadatas)

\* content exists: existing.LastUsed = time.Now(); db.Save(&existing)
StoreTouch(t) ==
    /\ clock' = clock + 1
    /\ th[t].pc = "store_touch"
    /\ \E upsert \in BOOLEAN :
          LET existing == [th[t].model EXCEPT !.lastUsed = TimeNow]
          IN  /\ rows' = SaveRow(rows, existing, TimeNow, upsert)
              /\ th' = [th EXCEPT ![t] = Done(t, ErrNone, ToClip(existing))]
    /\ UNCHANGED <<files, calls, firstStore, deletedOk, pasted>>
    /\ UNCHANGED svcVars

\* size > MaxInlineStorageSize: os.WriteFile(fsPath/contentHash, content)
StoreWriteFile(t) ==
    /\ th[t].pc = "store_write"
    /\ \E fault \in BOOLEAN :
          LET err == WriteErr(fault)
              wrote == IF err = ErrNone THEN "ok" ELSE "failed"
          IN  /\ files' = IF err = ErrNone
                           THEN WriteFile(files, th[t].model.contentHash, th[t].content)
                           ELSE files
              /\ th' = [th EXCEPT ![t] =
                     IF WriteFailed(err)
                     THEN [Done(t, ErrWriteFile, NoClip) EXCEPT !.wrote = wrote]
                     ELSE [th[t] EXCEPT !.pc = "store_create",
                                        !.model.storagePath = th[t].model.contentHash,
                                        !.model.isExternal = TRUE,
                                        !.wrote = wrote]]
    /\ UNCHANGED <<rows, clock, calls, firstStore, deletedOk, pasted>>
    /\ UNCHANGED svcVars

\* db.Create(model)
StoreCreate(t) ==
    /\ clock' = clock + 1
    /\ th[t].pc = "store_create"
    /\ LET r == CreateRow(rows, th[t].model, TimeNow)
           cm == r.rows[Len(r.rows)]
       IN  IF r.ok
           THEN /\ rows' = r.rows
                /\ th' = [th EXCEPT ![t] = Done(t, ErrNone, ToClip(cm))]
                /\ firstStore' = firstStore \cup
                      {[hash |-> cm.contentHash, id |-> cm.id, lastUsed |-> cm.lastUsed,
                        bytes |-> th[t].content, created |-> cm,
                        blob |-> IF FileExists(files, cm.contentHash)
                                 THEN ReadFile(files, cm.contentHash) ELSE EmptyContent]}
           ELSE /\ rows' = rows
                /\ th' = [th EXCEPT ![t] = Done(t, ErrCreate, NoClip)]
                /\ firstStore' = firstStore
    /\ UNCHANGED <<files, calls, deletedOk, pasted>>
    /\ UNCHANGED svcVars

(* ---------------- SQLiteStorage.Get ---------------- *)

\* a caller invokes Get(ctx, id): db.First(&model, id)
GetCall(t) ==
    /\ Free(t)
    /\ calls < MaxCalls
    /\ \E id \in 1 .. Len(rows) + 1 :
          LET base == [IdleThread EXCEPT !.op = "get", !.id = id,
                                         !.live = id \in LiveIds(rows)]
          IN  th' = [th EXCEPT ![t] =
                 IF FindById(rows, id) = {}
                 THEN [base EXCEPT !.pc = "done", !.res = Result(ErrRecordNotFound, NoClip)]
                 ELSE [base EXCEPT !.model = rows[id], !.seen = rows[id].lastUsed,
                                   !.pc = IF rows[id].isExternal THEN "get_readfile"
                                          ELSE "get_save"]]
    /\ calls' = calls + 1
    /\ UNCHANGED <<rows, files, clock, firstStore, deletedOk, pasted>>
    /\ UNCHANGED svcVars

\* model.IsExternal: os.ReadFile(fsPath/StoragePath); model.Content = content
GetReadFile(t) ==
    /\ th[t].pc = "get_readfile"
    /\ th' = [th EXCEPT ![t] =
          IF FileExists(files, th[t].model.storagePath)
          THEN [th[t] EXCEPT !.pc = "get_save",
                             !.model.content = ReadFile(files, th[t].model.storagePath)]
          ELSE Done(t, ErrReadFile, NoClip)]
    /\ UNCHANGED <<rows, files, clock, calls, firstStore, deletedOk, pasted>>
    /\ UNCHANGED svcVars

\* model.LastUsed = time.Now(); db.Save(&model); return model.ToClip()
GetSave(t) ==
    /\ clock' = clock + 1
    /\ th[t].pc = "get_save"
    /\ \E upsert \in BOOLEAN :
          LET model == [th[t].model EXCEPT !.lastUsed = TimeNow]
          IN  /\ rows' = SaveRow(rows, model, TimeNow, upsert)
              /\ th' = [th EXCEPT ![t] = Done(t, ErrNone, ToClip(model))]
    /\ UNCHANGED <<files, calls, firstStore, deletedOk, pasted>>
    /\ UNCHANGED svcVars

(* ---------------- SQLiteStorage.Delete ---------------- *)

\* a caller invokes Delete(ctx, id): db.First(&model, id)
DeleteCall(t) ==
    /\ Free(t)
    /\ calls < MaxCalls
    /\ \E id \in 1 .. Len(rows) + 1 :
          LET base == [IdleThread EXCEPT !.op = "delete", !.id = id]
          IN  th' = [th EXCEPT ![t] =
                 IF FindById(rows, id) = {}
                 THEN [base EXCEPT !.pc = "done", !.res = Result(ErrRecordNotFound, NoClip)]
                 ELSE [base EXCEPT !.model = rows[id],
                                   !.pc = IF rows[id].isExternal THEN "delete_file"
                                          ELSE "delete_row"]]
    /\ calls' = calls + 1
    /\ UNCHANGED <<rows, files, clock, firstStore, deletedOk, pasted>>
    /\ UNCHANGED svcVars

\* model.IsExternal: os.Remove(path); a file that is already gone is not an error
DeleteRemoveFile(t) ==
    /\ th[t].pc = "delete_file"
    /\ \E fault \in BOOLEAN :
          LET err == RemoveErr(files, th[t].model.storagePath, fault)
          IN  IF RemoveFailed(err)
              THEN /\ files' = files
                   /\ th' = [th EXCEPT ![t] = [Done(t, ErrRemoveFile, NoClip)
                                                 EXCEPT !.rm = err]]
              ELSE /\ files' = IF err = ErrNone
                                THEN RemoveFile(files, th[t].model.storagePath)
                                ELSE files
                   /\ th' = [th EXCEPT ![t].pc = "delete_row", ![t].rm = err]
    /\ UNCHANGED <<rows, clock, calls, firstStore, deletedOk, pasted>>
    /\ UNCHANGED svcVars

\* db.Delete(&model): soft delete, sets deleted_at on the live row with that key
SoftDelete(rws, id) ==
    IF id \in LiveIds(rws) THEN [rws EXCEPT ![id].deleted = TRUE] ELSE rws

DeleteRow(t) ==
    /\ clock' = clock + 1
    /\ th[t].pc = "delete_row"
    /\ rows' = SoftDelete(rows, th[t].model.id)
    /\ th' = [th EXCEPT ![t] = Done(t, ErrNone, NoClip)]
    /\ deletedOk' = deletedOk \cup
          {[id |-> th[t].model.id, external |-> th[t].model.isExternal,
            blobLeft |-> th[t].model.isExternal
                           /\ FileExists(files, th[t].model.storagePath)]}
    /\ UNCHANGED <<files, calls, firstStore, pasted>>
    /\ UNCHANGED svcVars

(* ---------------- SQLiteStorage.MarkAsSynced ---------------- *)

\* (mutant) an update that also writes the LastUsed the BeforeSave hook stamps
SetSyncedAndStamp(rws, id) ==
    IF id \in LiveIds(rws)
        THEN [rws EXCEPT ![id].synced = TRUE, ![id].lastUsed = @ + 1]
        ELSE rws

\* db.Model(&ClipModel{}).Where("id = ?", id).Update("synced_to_obsidian", true):
\* UPDATE ... SET synced_to_obsidian = true WHERE id = ? on the live rows.  The
\* BeforeSave hook runs on the empty model value, not on the row: only the named
\* column is written.
SetSynced(rws, id) ==
    IF id \in LiveIds(rws) THEN [rws EXCEPT ![id].synced = TRUE] ELSE rws

MarkAsSynced(t) ==
    /\ Free(t)
    /\ calls < MaxCalls
    /\ \E id \in 1 .. Len(rows) + 1 :
          /\ rows' = SetSynced(rows, id)
          /\ th' = [th EXCEPT ![t] =
                [IdleThread EXCEPT !.op = "mark", !.id = id, !.pc = "done",
                    !.was = id \in LiveIds(rows) /\ rows[id].synced,
                    !.res = Result(IF id \in LiveIds(rows) THEN ErrNone ELSE ErrNoClip,
                                   NoClip)]]
    /\ calls' = calls + 1
    /\ clock' = clock + 1
    /\ UNCHANGED <<files, firstStore, deletedOk, pasted>>
    /\ UNCHANGED svcVars

(* ---------------- SQLiteStorage.List, ListUnsynced ---------------- *)

\* ORDER BY key DESC over the rows with ids in S: the sequence of their ids (rows
\* with equal keys come in primary-key order)
OrderDesc(S, key) ==
    IF S = {} THEN <<>>
    ELSE LET hi == CHOOSE m \in S : \A j \in S : j <= m
         IN  SortSeq(SelectSeq([i \in 1 .. hi |-> i], LAMBDA i : i \in S),
                     LAMBDA a, b : key[a] > key[b] \/ (key[a] = key[b] /\ a < b))

\* query.Limit(limit) is applied only when limit > 0
Limited(ids, limit) ==
    IF limit > 0 /\ limit < Len(ids) THEN SubSeq(ids, 1, limit) ELSE ids

\* List with an empty filter but for Limit: live rows, ORDER BY last_used DESC
ListIds(rws, limit) ==
    Limited(OrderDesc(LiveIds(rws), [i \in LiveIds(rws) |-> rws[i].lastUsed]), limit)

\* ListUnsynced: live rows WHERE synced_to_obsidian = false ORDER BY created_at DESC
ListUnsyncedIds(rws, limit) ==
    LET S == {i \in LiveIds(rws) : ~rws[i].synced}
    IN  Limited(OrderDesc(S, [i \in S |-> rws[i].createdAt]), limit)

\* the elements of a sequence
Range(seq) == {seq[k] : k \in 1 .. Len(seq)}

(* ---------------- ClipboardService.GetClipByIndex, PasteByIndex ---------------- *)

\* (mutant) GetClipByIndex taking the index as a position counted from one
IndexResultFromOne(clips, index) ==
    IF Len(clips) <= index THEN Result(ErrClipNotFound, NoClip)
    ELSE IF index <= 0 THEN Result(PanicIndex, NoClip)
    ELSE Result(ErrNone, clips[index])

\* GetClipByIndex once List has returned clips: len(clips) <= index is "clip not
\* found", otherwise clips[index] -- which panics for a negative index
IndexResult(clips, index) ==
    IF Len(clips) <= index THEN Result(ErrClipNotFound, NoClip)
    ELSE IF index < 0 THEN Result(PanicIndex, NoClip)
    ELSE Result(ErrNone, clips[index + 1])

\* (mutant) PasteByIndex going on after a failed lookup
LookupFailedIgnored(err) == FALSE

\* PasteByIndex: clip, err := s.GetClipByIndex(ctx, index); if err != nil
LookupFailed(err) == err # ErrNone

\* the lookup has ended
LookupDone(cur, err, clip) ==
    [cur EXCEPT !.pc = "done", !.res = Result(err, clip), !.models = <<>>, !.k = 0]

\* GetClipByIndex returns r.  Called directly that is the result; inside PasteByIndex
\* a panic unwinds the call, an error is wrapped and returned, and a clip goes on
\* to SetClipboard
LookupReturn(cur, r) ==
    IF cur.op = "index" THEN LookupDone(cur, r.err, r.clip)
    ELSE IF r.err = PanicIndex
    THEN [LookupDone(cur, PanicIndex, NoClip) EXCEPT !.lookup = r.err]
    ELSE IF LookupFailed(r.err)
    THEN [LookupDone(cur, ErrRetrieveClip, NoClip) EXCEPT !.lookup = r.err]
    ELSE [cur EXCEPT !.pc = "paste_set", !.lookup = r.err, !.got = r.clip,
                     !.models = <<>>, !.k = 0]

\* the next model after position k whose content is external (0: none)
NextExternal(models, k) ==
    LET ext == {j \in k + 1 .. Len(models) : models[j].isExternal}
    IN  IF ext = {} THEN 0 ELSE CHOOSE j \in ext : \A i \in ext : j <= i

\* the loop of List up to its next os.ReadFile; when none is left List returns the
\* clips and GetClipByIndex picks one
ListAdvance(cur) ==
    IF NextExternal(cur.models, cur.k) # 0
    THEN [cur EXCEPT !.pc = "list_read"]
    ELSE LookupReturn(cur, IndexResult([j \in 1 .. Len(cur.models) |->
                                           ToClip(cur.models[j])], cur.n))

\* s.store.List(ctx, ListFilter{Limit: index + 1}): query.Find(&models)
ListFind(t, op, n) ==
    LET ids == ListIds(rows, n + 1)
    IN  [th EXCEPT ![t] =
            ListAdvance([IdleThread EXCEPT !.op = op, !.n = n, !.at = rows,
                            !.models = [j \in 1 .. Len(ids) |-> rows[ids[j]]]])]

\* (mutant) a List that stamps the records it returns, as Get does
ListStampsLastUsed(rws, limit, now) ==
    LET ids == ListIds(rws, limit)
    IN  [i \in DOMAIN rws |->
            IF \E j \in 1 .. Len(ids) : ids[j] = i
            THEN [rws[i] EXCEPT !.lastUsed = now] ELSE rws[i]]

\* the table after List: its one statement is query.Find(&models), a SELECT; no
\* Save, Update or Delete follows it
ListWrites(rws, limit, now) == rws

\* a caller invokes GetClipByIndex(ctx, index)
IndexCall(t) ==
    /\ Free(t)
    /\ calls < MaxCalls
    /\ \E n \in -1 .. Len(rows) :
          /\ th' = ListFind(t, "index", n)
          /\ rows' = ListWrites(rows, n + 1, TimeNow)
    /\ calls' = calls + 1
    /\ UNCHANGED <<files, clock, firstStore, deletedOk, pasted>>
    /\ UNCHANGED svcVars

\* a caller invokes PasteByIndex(ctx, index), which calls GetClipByIndex
PasteCall(t) ==
    /\ Free(t)
    /\ calls < MaxCalls
    /\ \E n \in -1 .. Len(rows) :
          /\ th' = ListFind(t, "paste", n)
          /\ rows' = ListWrites(rows, n + 1, TimeNow)
    /\ calls' = calls + 1
    /\ UNCHANGED <<files, clock, firstStore, deletedOk, pasted>>
    /\ UNCHANGED svcVars

\* List: model.IsExternal: os.ReadFile(fsPath/StoragePath); an error ends List
ListRead(t) ==
    /\ th[t].pc = "list_read"
    /\ LET j == NextExternal(th[t].models, th[t].k)
           path == th[t].models[j].storagePath
       IN  th' = [th EXCEPT ![t] =
                 IF FileExists(files, path)
                 THEN ListAdvance([th[t] EXCEPT !.k = j,
                                      !.models[j].content = ReadFile(files, path)])
                 ELSE LookupReturn(th[t], Result(ErrListClips, NoClip))]
    /\ UNCHANGED <<rows, files, clock, calls, firstStore, deletedOk, pasted>>
    /\ UNCHANGED svcVars

\* PasteByIndex: s.SetClipboard(ctx, clip), that is s.monitor.SetContent(*clip)
SetClipboard(t) ==
    /\ th[t].pc = "paste_set"
    /\ \E fault \in BOOLEAN :
          /\ pasted' = Append(pasted, [clip |-> th[t].got, failed |-> fault])
          /\ th' = [th EXCEPT ![t] =
                 [th[t] EXCEPT !.pc = "done", !.sets = Len(pasted) + 1,
                    !.res = Result(IF fault THEN ErrSetClipboard ELSE ErrNone, NoClip)]]
    /\ UNCHANGED <<rows, files, clock, calls, firstStore, deletedOk>>
    /\ UNCHANGED svcVars

(* ---------------- GetClipByIndex and PasteByIndex beside concurrent Store and Delete ---------------- *)

NextIdx ==
    \/ \E t \in Threads : StoreCall(t)
    \/ \E t \in Threads : StoreTouch(t)
    \/ \E t \in Threads : StoreWriteFile(t)
    \/ \E t \in Threads : StoreCreate(t)
    \/ \E t \in Threads : DeleteCall(t)
    \/ \E t \in Threads : DeleteRemoveFile(t)
    \/ \E t \in Threads : DeleteRow(t)
    \/ \E t \in Threads : IndexCall(t)
    \/ \E t \in Threads : PasteCall(t)
    \/ \E t \in Threads : ListRead(t)
    \/ \E t \in Threads : SetClipboard(t)

SpecIdx == Init /\ [][NextIdx]_vars

(* ---------------- the record store under concurrent callers ---------------- *)

Next ==
    \/ \E t \in Threads : StoreCall(t)
    \/ \E t \in Threads : StoreTouch(t)
    \/ \E t \in Threads : StoreWriteFile(t)
    \/ \E t \in Threads : StoreCreate(t)
    \/ \E t \in Threads : GetCall(t)
    \/ \E t \in Threads : GetReadFile(t)
    \/ \E t \in Threads : GetSave(t)
    \/ \E t \in Threads : DeleteCall(t)
    \/ \E t \in Threads : DeleteRemoveFile(t)
    \/ \E t \in Threads : DeleteRow(t)
    \/ \E t \in Threads : MarkAsSynced(t)

Spec == Init /\ [][Next]_vars

(* ---------------- the record store under callers that pass metadata ---------------- *)

NextMeta ==
    \/ \E t \in Threads : StoreCallMeta(t)
    \/ \E t \in Threads : StoreTouch(t)
    \/ \E t \in Threads : StoreWriteFile(t)
    \/ \E t \in Threads : StoreCreate(t)
    \/ \E t \in Threads : GetCall(t)
    \/ \E t \in Threads : GetReadFile(t)
    \/ \E t \in Threads : GetSave(t)
    \/ \E t \in Threads : DeleteCall(t)
    \/ \E t \in Threads : DeleteRemoveFile(t)
    \/ \E t \in Threads : DeleteRow(t)
    \/ \E t \in Threads : MarkAsSynced(t)

SpecMeta == Init /\ [][NextMeta]_vars

(* ---------------- ClipboardService ---------------- *)

\* what the monitor puts on the clipboard: nothing, content that goes to a blob
\* file, or content beyond the ceiling
ClipPayloads ==
    {EmptyContent} \cup {p \in Payloads : p.fill = "a" /\ p.len > MaxInlineStorageSize}

\* the monitor classifies the content it read: the type tag follows from the content
ClipType(content) == IF content.fill = "b" THEN "image" ELSE "text"

\* the goroutine has ended
Finished(outcome) == IdleTask

\* Start(): monitor.OnChange(callback); monitor.Start()
Start ==
    /\ monitor = "idle"
    /\ monitor' = "running"
    /\ UNCHANGED <<handlers, mu, wg, stop, tasks, changes, reg, inFlightAtStop>>
    /\ UNCHANGED storeVars

\* RegisterHandler(handler) is called and blocks in s.mu.Lock(): by the application
\* (by = 0) or from inside the handler that goroutine by is running
RegisterCall(by) ==
    /\ reg.pc = "none"
    /\ Len(handlers) < MaxHandlers
    /\ by # 0 => tasks[by].active /\ tasks[by].pc = "in_handler"
    /\ reg' = [h |-> Len(handlers) + 1, by |-> by, pc |-> "waiting"]
    /\ UNCHANGED <<handlers, mu, wg, monitor, stop, tasks, changes, inFlightAtStop>>
    /\ UNCHANGED storeVars

\* RegisterHandler: s.mu.Lock() returns
RegisterLock ==
    /\ reg.pc = "waiting"
    /\ ~mu.w /\ mu.r = 0
    /\ mu' = [mu EXCEPT !.w = TRUE]
    /\ reg' = [reg EXCEPT !.pc = "locked"]
    /\ UNCHANGED <<handlers, wg, monitor, stop, tasks, changes, inFlightAtStop>>
    /\ UNCHANGED storeVars

\* RegisterHandler: s.handlers = append(s.handlers, handler); deferred s.mu.Unlock()
RegisterAppend ==
    /\ reg.pc = "locked"
    /\ handlers' = Append(handlers, reg.h)
    /\ mu' = [mu EXCEPT !.w = FALSE]
    /\ reg' = NoReg
    /\ UNCHANGED <<wg, monitor, stop, tasks, changes, inFlightAtStop>>
    /\ UNCHANGED storeVars

\* (mutant) a callback that handles the change itself: the monitor cannot deliver
\* the next change before the handling of the last one has ended
CallbackBlockedByTasks(ts) == \E t \in Threads : ts[t].active

\* the callback only starts a goroutine and returns; it waits for none of the
\* goroutines ts started before
CallbackBlocked(ts) == FALSE

\* the monitor's polling goroutine has not returned: Stop() only closes stopChan,
\* and a checkForChanges() begun before that (or a select that takes the ticker
\* while both channels are ready) still ends in m.handler(clip)
Polling(mon) == mon \in {"running", "closing"}

\* the monitor's callback: s.wg.Add(1); go func() { ... }()
OnChange(t) ==
    /\ Polling(monitor)
    /\ changes < MaxChanges
    /\ ~CallbackBlocked(tasks)
    /\ Free(t)
    /\ \E content \in ClipPayloads :
          tasks' = [tasks EXCEPT ![t] =
              [IdleTask EXCEPT !.active = TRUE, !.pc = "handle", !.seq = changes + 1,
                               !.clip = [content |-> content, type |-> ClipType(content)]]]
    /\ th' = [th EXCEPT ![t] = IdleThread]
    /\ wg' = wg + 1
    /\ changes' = changes + 1
    /\ UNCHANGED <<handlers, mu, monitor, stop, reg, inFlightAtStop>>
    /\ UNCHANGED <<rows, files, clock, calls, firstStore, deletedOk, pasted>>

\* (mutant) handleClipboardChange without its empty-content check
IsEmptyNever(content) == FALSE

\* len(clip.Content) == 0
IsEmpty(content) == content.len = 0

\* handleClipboardChange: empty content returns nil at once, anything else calls Store
HandleChange(t) ==
    /\ tasks[t].active /\ tasks[t].pc = "handle"
    /\ IF IsEmpty(tasks[t].clip.content)
       THEN /\ tasks' = [tasks EXCEPT ![t].pc = "notify_rlock", ![t].outcome = "empty"]
            /\ th' = th
       ELSE /\ tasks' = [tasks EXCEPT ![t].pc = "storing"]
            /\ th' = StoreEnter(t, tasks[t].clip.content, tasks[t].clip.type, NoMetadata)
    /\ UNCHANGED <<handlers, mu, wg, monitor, stop, changes, reg, inFlightAtStop>>
    /\ UNCHANGED <<rows, files, clock, calls, firstStore, deletedOk, pasted>>

\* what handleClipboardChange makes of Store's result
Outcome(res, dedup) ==
    IF res.err = ErrFileTooLarge THEN "too_large"
    ELSE IF res.err # ErrNone THEN "failed"
    ELSE IF dedup THEN "deduplicated"
    ELSE "stored"

\* a nil error
NoError == [op |-> "", message |-> "", err |-> ErrNone]

\* the error handleClipboardChange returns for the error Store returned
HandleErr(err) ==
    IF err = ErrFileTooLarge \/ err = ErrNone
        THEN NoError
        ELSE [op |-> "handleClipboardChange", message |-> "failed to store clip",
              err |-> err]

\* (mutant) handleClipboardChange swallowing every Store error
ReturnsNilAlways(outcome) == TRUE

\* handleClipboardChange returns nil unless Store failed with another error than
\* ErrFileTooLarge; the goroutine goes on to notify whenever it returned nil
ReturnsNil(outcome) == outcome # "failed"

\* Store has returned to handleClipboardChange, which returns to the goroutine:
\* on an error the goroutine logs it and ends (deferred s.wg.Done())
HandleReturn(t) ==
    /\ tasks[t].active /\ tasks[t].pc = "storing"
    /\ th[t].pc = "done"
    /\ LET outcome == Outcome(th[t].res, th[t].dedup)
       IN  IF ReturnsNil(outcome)
           THEN /\ tasks' = [tasks EXCEPT ![t].pc = "notify_rlock", ![t].outcome = outcome]
                /\ wg' = wg
           ELSE /\ tasks' = [tasks EXCEPT ![t] = Finished(outcome)]
                /\ wg' = wg - 1
    /\ th' = [th EXCEPT ![t] = IdleThread]
    /\ UNCHANGED <<handlers, mu, monitor, stop, changes, reg, inFlightAtStop>>
    /\ UNCHANGED <<rows, files, clock, calls, firstStore, deletedOk, pasted>>

\* s.mu.RLock(): blocks while a writer holds the lock or waits for it
NotifyRLock(t) ==
    /\ tasks[t].active /\ tasks[t].pc = "notify_rlock"
    /\ ~mu.w /\ reg.pc # "waiting"
    /\ mu' = [mu EXCEPT !.r = mu.r + 1]
    /\ tasks' = [tasks EXCEPT ![t].pc = "notify_copy", ![t].rlocked = TRUE]
    /\ UNCHANGED <<handlers, wg, monitor, stop, changes, reg, inFlightAtStop>>
    /\ UNCHANGED storeVars

\* (mutant) the read lock kept while the handlers run
AfterCopyKeepLock(m) == m

\* s.mu.RUnlock() right after the copy, before the loop over the handlers
AfterCopy(m) == [m EXCEPT !.r = m.r - 1]

\* handlers := s.handlers; s.mu.RUnlock()
NotifyCopy(t) ==
    /\ tasks[t].active /\ tasks[t].pc = "notify_copy"
    /\ mu' = AfterCopy(mu)
    /\ tasks' = [tasks EXCEPT ![t].pc = "notify", ![t].snap = handlers,
                              ![t].rlocked = AfterCopy(mu).r >= mu.r]
    /\ UNCHANGED <<handlers, wg, monitor, stop, changes, reg, inFlightAtStop>>
    /\ UNCHANGED storeVars

\* for _, handler := range handlers: handler.HandleClipboardChange(clip) is called
NotifyHandler(t) ==
    /\ tasks[t].active /\ tasks[t].pc = "notify"
    /\ Len(tasks[t].notified) < Len(tasks[t].snap)
    /\ tasks' = [tasks EXCEPT ![t].pc = "in_handler"]
    /\ UNCHANGED <<handlers, mu, wg, monitor, stop, changes, reg, inFlightAtStop>>
    /\ UNCHANGED storeVars

\* the handler returns (not while it is inside a RegisterHandler call of its own)
HandlerReturn(t) ==
    /\ tasks[t].active /\ tasks[t].pc = "in_handler"
    /\ reg.by # t
    /\ tasks' = [tasks EXCEPT ![t].pc = "notify",
                              ![t].notified =
                                  Append(@, tasks[t].snap[Len(tasks[t].notified) + 1])]
    /\ UNCHANGED <<handlers, mu, wg, monitor, stop, changes, reg, inFlightAtStop>>
    /\ UNCHANGED storeVars

\* the goroutine ends: deferred s.wg.Done()
TaskDone(t) ==
    /\ tasks[t].active /\ tasks[t].pc = "notify"
    /\ Len(tasks[t].notified) = Len(tasks[t].snap)
    /\ tasks' = [tasks EXCEPT ![t] = Finished(tasks[t].outcome)]
    /\ wg' = wg - 1
    /\ UNCHANGED <<handlers, mu, monitor, stop, changes, reg, inFlightAtStop>>
    /\ UNCHANGED storeVars

\* goroutines started by the callback that have not ended
InFlight == {t \in Threads : tasks[t].active}

\* Stop(): s.cancel(); s.monitor.Stop() -- an error is returned at once
StopCall ==
    /\ stop = "none"
    /\ monitor = "running"
    /\ \E ok \in BOOLEAN :
          IF ok
          THEN /\ monitor' = "closing"
               /\ stop' = "waiting"
               /\ inFlightAtStop' = inFlightAtStop
          ELSE /\ monitor' = monitor
               /\ stop' = "returned_err"
               /\ inFlightAtStop' = InFlight
    /\ UNCHANGED <<handlers, mu, wg, tasks, changes, reg>>
    /\ UNCHANGED storeVars

\* the polling goroutine's select takes <-m.stopChan and returns
MonitorExit ==
    /\ monitor = "closing"
    /\ monitor' = "stopped"
    /\ UNCHANGED <<handlers, mu, wg, stop, tasks, changes, reg, inFlightAtStop>>
    /\ UNCHANGED storeVars

\* Stop(): s.wg.Wait(); return nil
StopWait ==
    /\ stop = "waiting"
    /\ wg = 0
    /\ stop' = "returned_ok"
    /\ inFlightAtStop' = InFlight
    /\ UNCHANGED <<handlers, mu, wg, monitor, tasks, changes, reg>>
    /\ UNCHANGED storeVars

NextSvc ==
    \/ Start
    \/ \E by \in {0} \cup Threads : RegisterCall(by)
    \/ RegisterLock
    \/ RegisterAppend
    \/ \E t \in Threads : OnChange(t)
    \/ \E t \in Threads : HandleChange(t)
    \/ \E t \in Threads : StoreTouch(t)
    \/ \E t \in Threads : StoreWriteFile(t)
    \/ \E t \in Threads : StoreCreate(t)
    \/ \E t \in Threads : HandleReturn(t)
    \/ \E t \in Threads : NotifyRLock(t)
    \/ \E t \in Threads : NotifyCopy(t)
    \/ \E t \in Threads : NotifyHandler(t)
    \/ \E t \in Threads : HandlerReturn(t)
    \/ \E t \in Threads : TaskDone(t)
    \/ StopCall
    \/ MonitorExit
    \/ StopWait

SpecSvc == Init /\ [][NextSvc]_vars

\* the service while nobody calls Stop
NextRun ==
    \/ Start
    \/ \E by \in {0} \cup Threads : RegisterCall(by)
    \/ RegisterLock
    \/ RegisterAppend
    \/ \E t \in Threads : OnChange(t)
    \/ \E t \in Threads : HandleChange(t)
    \/ \E t \in Threads : StoreTouch(t)
    \/ \E t \in Threads : StoreWriteFile(t)
    \/ \E t \in Threads : StoreCreate(t)
    \/ \E t \in Threads : HandleReturn(t)
    \/ \E t \in Threads : NotifyRLock(t)
    \/ \E t \in Threads : NotifyCopy(t)
    \/ \E t \in Threads : NotifyHandler(t)
    \/ \E t \in Threads : HandlerReturn(t)
    \/ \E t \in Threads : TaskDone(t)

SpecRun == Init /\ [][NextRun]_vars

(* ---------------- queries: strings and SQL conditions ---------------- *)

\* strings.ToLower and SQL LOWER() on one character
LowerChar(c) == IF c = "A" THEN "a" ELSE IF c = "B" THEN "b" ELSE c

\* strings.ToLower(s)
ToLower(s) == [k \in 1 .. Len(s) |-> LowerChar(s[k])]

\* strings.Contains(strings.ToLower(string(content)), term) for a run of bytes
RunContains(content, term) ==
    /\ Len(term) <= content.len
    /\ \A k \in 1 .. Len(term) : term[k] = LowerChar(content.fill)

\* one character against one pattern character of LIKE: SQLite compares ASCII
\* letters without case, and "_" stands for any character
LikeChar(c, p) == p = "_" \/ LowerChar(c) = LowerChar(p)

\* SQL: LOWER(s) LIKE '%' || term || '%'
Like(s, term) ==
    \E i \in 0 .. Len(s) - Len(term) :
        \A k \in 1 .. Len(term) : LikeChar(s[i + k], term[k])

\* SQL: LOWER(CAST(content AS TEXT)) LIKE '%' || term || '%' for a run of bytes
LikeRun(content, term) ==
    /\ Len(term) <= content.len
    /\ \A k \in 1 .. Len(term) : LikeChar(content.fill, term[k])

RECURSIVE JoinTags(_)

\* the elements of a JSON array of strings
JoinTags(tags) ==
    IF tags = <<>> THEN <<>>
    ELSE <<"\"">> \o Head(tags) \o <<"\"">>
            \o (IF Len(tags) > 1 THEN <<",">> ELSE <<>>) \o JoinTags(Tail(tags))

\* StringArray.Value: json.Marshal of the tags
TagsJSON(tags) == <<"[">> \o JoinTags(tags) \o <<"]">>

\* SQL: LOWER(tags) LIKE '%' || term || '%'; a nil StringArray is stored as NULL,
\* which no LIKE matches
TagsLike(tags, term) == tags # <<>> /\ Like(TagsJSON(tags), term)

\* SQL: type LIKE 'text%' over the type tags of the model
LikeText(type) == type = "text"

\* the zero SearchOptions; a ListFilter is its Type, Category, Tags, Limit, Offset
NoOpts ==
    [query |-> <<>>, type |-> "", sourceApp |-> <<>>, category |-> <<>>,
     tags |-> <<>>, from |-> 0, to |-> 0, sortBy |-> "", sortOrder |-> "",
     limit |-> 0, offset |-> 0]

\* os.ReadFile of the blob of an external row succeeds
BlobReadable(fs, r) == r.isExternal /\ r.storagePath # <<>> /\ FileExists(fs, r.storagePath)

\* the text condition of Search on row r:
\* (type LIKE 'text%' AND ((is_external = 0 AND content LIKE) OR content_hash LIKE))
\* OR source_app LIKE OR category LIKE OR tags LIKE
TextMatch(r, term) ==
    \/ /\ LikeText(r.type)
       /\ \/ ~r.isExternal /\ LikeRun(r.content, term)
          \/ Like(r.contentHash, term)
    \/ Like(r.sourceApp, term)
    \/ Like(r.category, term)
    \/ TagsLike(r.tags, term)

\* (mutant) a search that does not look into the blobs
ExternalHitsNone(rws, fs, term) == {}

\* Search: the live external text rows whose blob can be read and contains the
\* term; each adds query.Or("id = ?", clip.ID)
ExternalHits(rws, fs, term) ==
    {i \in LiveIds(rws) :
        /\ LikeText(rws[i].type) /\ rws[i].isExternal
        /\ BlobReadable(fs, rws[i])
        /\ RunContains(ReadFile(fs, rws[i].storagePath), term)}

\* the filters of Search on row r: one Where each, for the options that are set
\* (type = ?, source_app = ?, category = ?, tags LIKE '%tag%' per tag, created_at
\* >= ?, created_at <= ?)
Filters(r, o) ==
    /\ o.type # "" => r.type = o.type
    /\ o.sourceApp # <<>> => r.sourceApp = o.sourceApp
    /\ o.category # <<>> => r.category = o.category
    /\ \A k \in 1 .. Len(o.tags) : TagsLike(r.tags, o.tags[k])
    /\ o.from # 0 => r.createdAt >= o.from
    /\ o.to # 0 => r.createdAt <= o.to

\* the WHERE clause of Search on row r.  The conditions are joined in the order
\* they were added: text OR id = h1 OR ... OR id = hn AND filter AND ... AND filter,
\* and AND binds tighter than OR, so with external hits the filters apply to the hit
\* added last only.  hits: the external hits; last: the one added last (0: none).
Selected(r, o, hits, last) ==
    IF o.query = <<>> THEN Filters(r, o)
    ELSE IF hits = {} THEN TextMatch(r, ToLower(o.query)) /\ Filters(r, o)
    ELSE \/ TextMatch(r, ToLower(o.query))
         \/ r.id \in hits \ {last}
         \/ r.id = last /\ Filters(r, o)

\* the sequences that enumerate the set S once
Perms(S) ==
    {f \in [1 .. Cardinality(S) -> S] :
        \A j, k \in 1 .. Cardinality(S) : j # k => f[j] # f[k]}

Reverse(seq) == [k \in 1 .. Len(seq) |-> seq[Len(seq) + 1 - k]]

\* strings.ToLower of a sort direction
LowerWord(w) == IF w = "ASC" THEN "asc" ELSE IF w = "DESC" THEN "desc" ELSE w

\* ORDER BY key ASC or DESC
OrderBy(S, key, asc) == IF asc THEN Reverse(OrderDesc(S, key)) ELSE OrderDesc(S, key)

\* direction := "DESC"; if strings.ToLower(opts.SortOrder) == "asc" { direction = "ASC" }
Ascending(o) == LowerWord(o.sortOrder) = "asc"

\* the orders Search can return the rows S in: the ORDER BY it adds, if it adds one;
\* for a SortBy it does not know it adds none, and the rows come in any order
SearchOrders(S, rws, o) ==
    IF o.sortBy = ""
        THEN {OrderDesc(S, [i \in S |-> rws[i].lastUsed])}
    ELSE IF o.sortBy = "created_at"
        THEN {OrderBy(S, [i \in S |-> rws[i].createdAt], Ascending(o))}
    ELSE IF o.sortBy = "last_used"
        THEN {OrderBy(S, [i \in S |-> rws[i].lastUsed], Ascending(o))}
    ELSE Perms(S)

\* (mutant) pagination that skips offset - 1 rows
PageFromOne(ids, limit, offset) ==
    Limited(IF offset > 1 THEN SubSeq(ids, offset, Len(ids)) ELSE ids, limit)

\* query.Limit(limit) if limit > 0; query.Offset(offset) if offset > 0
Page(ids, limit, offset) ==
    Limited(IF offset > 0 THEN SubSeq(ids, offset + 1, Len(ids)) ELSE ids, limit)

\* a returned clip: model.ToClip(), with the blob as content when the row is
\* external and the blob was read
Hydrated(r, fs) ==
    [id |-> r.id, type |-> r.type, createdAt |-> r.createdAt, lastUsed |-> r.lastUsed,
     content |-> IF BlobReadable(fs, r) THEN ReadFile(fs, r.storagePath) ELSE r.content]

\* the clock of the model ticks TicksPerSecond times a second
TicksPerSecond == 2

\* time.Time.Unix(): the whole seconds of a time
Unix(tm) == tm \div TicksPerSecond

\* (mutant) a score that grows with the age of the record
ScoreByAge(lastUsed) == 0 - Unix(lastUsed)

\* Score: float64(model.LastUsed.Unix()); the conversion is exact for every time
\* a clock gives
Score(lastUsed) == Unix(lastUsed)

\* storage.SearchResult{Clip, LastUsed, Score} of row r
SearchResult(r, fs) ==
    [id |-> r.id, type |-> r.type, createdAt |-> r.createdAt,
     content |-> Hydrated(r, fs).content,
     lastUsed |-> r.lastUsed, score |-> Score(r.lastUsed)]

(* ---------------- SQLiteStorage.List(filter), Search(opts) ---------------- *)

ErrList == "failed to list clips"

\* the rows List selects: type = ? and category = ? for the fields that are set
ListSelected(rws, f) ==
    {i \in LiveIds(rws) :
        /\ f.type # "" => rws[i].type = f.type
        /\ f.category # <<>> => rws[i].category = f.category}

\* List: the statement "tags @> ?" is not SQL the database accepts, so Find fails
\* whenever filter.Tags is not empty
ListQueryFails(f) == Len(f.tags) > 0

\* List(ctx, filter): [err, out]
ListResult(rws, fs, f) ==
    IF ListQueryFails(f) THEN [err |-> ErrList, out |-> <<>>]
    ELSE LET S == ListSelected(rws, f)
             ids == Page(OrderDesc(S, [i \in S |-> rws[i].lastUsed]), f.limit, f.offset)
         IN  IF \E k \in 1 .. Len(ids) :
                    rws[ids[k]].isExternal /\ ~FileExists(fs, rws[ids[k]].storagePath)
             THEN [err |-> ErrReadFile, out |-> <<>>]
             ELSE [err |-> ErrNone,
                   out |-> [k \in 1 .. Len(ids) |-> Hydrated(rws[ids[k]], fs)]]

\* List runs on a table no other call is writing
ListRun(t) ==
    /\ th[t].pc = "list"
    /\ LET r == ListResult(rows, files, th[t].opts)
       IN  th' = [th EXCEPT ![t] = [th[t] EXCEPT !.pc = "done", !.out = r.out,
                                                 !.res = Result(r.err, NoClip)]]
    /\ UNCHANGED <<rows, files, clock, calls, firstStore, deletedOk, pasted>>
    /\ UNCHANGED svcVars

\* Search(opts) on a table no other call is writing, called by thread t
SearchWith(t, o) ==
    /\ LET hits == IF o.query = <<>> THEN {} ELSE ExternalHits(rows, files, ToLower(o.query))
       IN  \E last \in (IF hits = {} THEN {0} ELSE hits) :
               LET S == {i \in LiveIds(rows) : Selected(rows[i], o, hits, last)}
               IN  \E order \in SearchOrders(S, rows, o) :
                       LET ids == Page(order, o.limit, o.offset)
                       IN  th' = [th EXCEPT ![t] =
                                 [th[t] EXCEPT !.pc = "done",
                                    !.res = Result(ErrNone, NoClip),
                                    !.out = [k \in 1 .. Len(ids) |->
                                                SearchResult(rows[ids[k]], files)]]]
    /\ UNCHANGED <<rows, files, clock, calls, firstStore, deletedOk, pasted>>
    /\ UNCHANGED svcVars

SearchRun(t) == th[t].pc = "search" /\ SearchWith(t, th[t].opts)

(* ---------------- SQLiteStorage.GetRecent, GetMostUsed, GetByType ---------------- *)

\* GetRecent(limit): Search(SearchOptions{Limit, SortBy: "last_used", SortOrder: "desc"})
GetRecentOpts(limit) ==
    [NoOpts EXCEPT !.limit = limit, !.sortBy = "last_used", !.sortOrder = "desc"]

\* (mutant) most used ordered by another column than recency
GetMostUsedByCreation(limit) ==
    [NoOpts EXCEPT !.limit = limit, !.sortBy = "created_at", !.sortOrder = "desc"]

\* GetMostUsed(limit): last_used as a proxy for usage frequency
GetMostUsedOpts(limit) ==
    [NoOpts EXCEPT !.limit = limit, !.sortBy = "last_used", !.sortOrder = "desc"]

\* GetByType(clipType, limit)
GetByTypeOpts(clipType, limit) ==
    [NoOpts EXCEPT !.type = clipType, !.limit = limit,
                   !.sortBy = "last_used", !.sortOrder = "desc"]

\* the arguments of the call are kept in th[t].opts (limit, type)
GetRecent(t) ==
    th[t].pc = "recent" /\ SearchWith(t, GetRecentOpts(th[t].opts.limit))

GetMostUsed(t) ==
    th[t].pc = "mostused" /\ SearchWith(t, GetMostUsedOpts(th[t].opts.limit))

GetByType(t) ==
    th[t].pc = "bytype" /\ SearchWith(t, GetByTypeOpts(th[t].opts.type, th[t].opts.limit))

(* ---------------- the queries on a stored table ---------------- *)

\* what Store was called with for each record of the table: payload, type, metadata
Stored ==
    {[content |-> [fill |-> "A", len |-> 2], type |-> "text",
      sourceApp |-> <<>>, category |-> <<>>, tags |-> << <<"a">>, <<"b">> >>],
     [content |-> [fill |-> "a", len |-> MaxInlineStorageSize + 1], type |-> "text",
      sourceApp |-> <<>>, category |-> <<>>, tags |-> <<>>],
     [content |-> [fill |-> "b", len |-> 10], type |-> "image",
      sourceApp |-> <<>>, category |-> <<>>, tags |-> <<>>],
     [content |-> [fill |-> "b", len |-> 1], type |-> "text",
      sourceApp |-> <<"b">>, category |-> <<"b">>, tags |-> << <<"a", "b">> >>],
     [content |-> [fill |-> "A", len |-> MaxInlineStorageSize + 1], type |-> "text",
      sourceApp |-> <<"b">>, category |-> <<>>, tags |-> <<>>]}

\* the row Store creates for s as the i-th record, last used at lu
RowOf(s, i, lu, deleted) ==
    LET ext == PlacedExternal(s.content.len)
    IN  [ClipModel EXCEPT
            !.id = i, !.contentHash = calculateHash(s.content),
            !.content = IF ext THEN EmptyContent ELSE s.content,
            !.storagePath = IF ext THEN calculateHash(s.content) ELSE <<>>,
            !.isExternal = ext, !.size = s.content.len, !.type = s.type,
            !.sourceApp = s.sourceApp, !.category = s.category, !.tags = s.tags,
            !.createdAt = i, !.lastUsed = lu, !.deleted = deleted]

\* the blob Store writes for s
BlobOf(s) == [name |-> calculateHash(s.content), data |-> s.content]

\* the states of table and blob directory the queries run on: up to MaxRows
\* records of distinct content stored one after the other, then each read once in
\* any order, at most one of them deleted; at most one blob is missing
StoredStates ==
    UNION {
        {[rows |-> [i \in 1 .. n |-> RowOf(pick[i], i, n + used[i], i = gone)],
          files |-> {BlobOf(pick[i]) :
                        i \in {j \in 1 .. n : PlacedExternal(pick[j].content.len)
                                                /\ j # lost}}] :
            pick \in {f \in [1 .. n -> Stored] :
                         \A j, k \in 1 .. n : j # k => f[j] # f[k]},
            used \in Perms(1 .. n),
            gone \in 0 .. n,
            lost \in 0 .. n}
        : n \in 0 .. MaxRows}

\* search terms
Terms == {<<"a">>, <<"A">>, <<"b">>, <<"a", "A">>, <<"A", "b">>}

\* List calls: every filter without pagination, every page of the unfiltered list
ListCalls ==
    {[NoOpts EXCEPT !.type = ty, !.category = c, !.tags = tg] :
        ty \in {"", "text"}, c \in {<<>>, <<"b">>}, tg \in {<<>>, << <<"a">> >>}}
    \cup {[NoOpts EXCEPT !.limit = l, !.offset = f] :
             l \in 0 .. MaxRows, f \in 0 .. MaxRows}

\* Search calls: a term alone; a term or none with filters; with a tag filter; with
\* sort options and a page
SearchCalls ==
    {[NoOpts EXCEPT !.query = q] : q \in Terms}
    \cup {[NoOpts EXCEPT !.query = q, !.type = ty, !.sourceApp = sa, !.category = c,
                         !.from = rg[1], !.to = rg[2]] :
             q \in {<<>>, <<"a">>}, ty \in {"", "text", "image"},
             sa \in {<<>>, <<"b">>}, c \in {<<>>, <<"b">>},
             rg \in {<<0, 0>>, <<2, 0>>, <<0, 1>>}}
    \cup {[NoOpts EXCEPT !.query = q, !.tags = tg] :
             q \in {<<>>, <<"a">>},
             tg \in {<< <<"a">> >>, << <<"a">>, <<"b">> >>, << <<"A">> >>}}
    \cup {[NoOpts EXCEPT !.sortBy = by, !.sortOrder = dir, !.limit = l, !.offset = f] :
             by \in {"", "created_at", "last_used", "size"},
             dir \in {"", "asc", "ASC", "desc"}, l \in {0, 1}, f \in {0, 1}}

QueryCalls ==
    {[op |-> "list", opts |-> o] : o \in ListCalls}
    \cup {[op |-> "search", opts |-> o] : o \in SearchCalls}

\* the calls that start together: one List or Search; GetRecent and GetMostUsed
\* with the same limit, by two callers; one GetByType
QueryStarts ==
    {<<c>> : c \in QueryCalls}
    \cup {<<[op |-> "recent", opts |-> [NoOpts EXCEPT !.limit = l]],
            [op |-> "mostused", opts |-> [NoOpts EXCEPT !.limit = l]]>> :
             l \in 0 .. MaxRows}
    \cup {<<[op |-> "bytype", opts |-> [NoOpts EXCEPT !.type = ty, !.limit = l]]>> :
             ty \in ClipTypes, l \in 0 .. MaxRows}

\* callers have invoked the queries on a stored table
InitQry ==
    /\ \E st \in StoredStates : rows = st.rows /\ files = st.files
    /\ \E cs \in QueryStarts :
          th = [t \in Threads |->
                   IF t <= Len(cs)
                   THEN [IdleThread EXCEPT !.op = cs[t].op, !.pc = cs[t].op,
                                           !.opts = cs[t].opts]
                   ELSE IdleThread]
    /\ clock = 2 * MaxRows + 1
    /\ calls = 1
    /\ firstStore = {}
    /\ deletedOk = {}
    /\ pasted = <<>>
    /\ handlers = <<>>
    /\ mu = [w |-> FALSE, r |-> 0]
    /\ wg = 0
    /\ monitor = "idle"
    /\ stop = "none"
    /\ tasks = [t \in Threads |-> IdleTask]
    /\ changes = 0
    /\ reg = NoReg
    /\ inFlightAtStop = {}

NextQry ==
    \/ \E t \in Threads : ListRun(t)
    \/ \E t \in Threads : SearchRun(t)
    \/ \E t \in Threads : GetRecent(t)
    \/ \E t \in Threads : GetMostUsed(t)
    \/ \E t \in Threads : GetByType(t)

SpecQry == InitQry /\ [][NextQry]_vars

(* ---------------- ClipboardService.ClearClips ---------------- *)

\* clips, err := s.GetClips(ctx, 1000, 0) // Get all clips
ClearLimit == 1000

ErrClearList == "failed to get clips"
ErrClearDelete == "failed to delete clip"

\* the loop of ClearClips has deleted the clips with ids in gone and returns err
ClearDeleted(t, gone, err) ==
    /\ rows' = [i \in 1 .. Len(rows) |->
                   IF i \in gone THEN SoftDelete(rows, i)[i] ELSE rows[i]]
    /\ files' = {f \in files :
                    \A i \in gone : rows[i].isExternal => f.name # rows[i].storagePath}
    /\ clock' = clock + Cardinality(gone)
    /\ deletedOk' = deletedOk \cup
           {[id |-> i, external |-> rows[i].isExternal, blobLeft |-> FALSE] : i \in gone}
    /\ th' = [th EXCEPT ![t] =
           [th[t] EXCEPT !.pc = "done", !.at = rows, !.k = Cardinality(gone),
                         !.res = Result(err, NoClip)]]

\* for _, clip := range clips { s.store.Delete(ctx, clip.ID) }: the clips are
\* deleted in order until a Delete fails.  fail = 0: none fails; fail = k: the k-th
\* fails, which takes a failing os.Remove.
ClearLoop(t, ids) ==
    \E fail \in 0 .. Len(ids) :
        /\ fail > 0 =>
               /\ rows[ids[fail]].isExternal
               /\ RemoveFailed(RemoveErr(files, rows[ids[fail]].storagePath, TRUE))
        /\ ClearDeleted(t, {ids[k] : k \in 1 .. (IF fail = 0 THEN Len(ids) ELSE fail - 1)},
                        IF fail = 0 THEN ErrNone ELSE ErrClearDelete)

\* ClearClips after GetClips has returned r
ClearListed(t, r) ==
    IF r.err # ErrNone
    THEN /\ th' = [th EXCEPT ![t] = [th[t] EXCEPT !.pc = "done", !.at = rows,
                                        !.res = Result(ErrClearList, NoClip)]]
         /\ UNCHANGED <<rows, files, clock, deletedOk>>
    ELSE ClearLoop(t, [k \in 1 .. Len(r.out) |-> r.out[k].id])

\* ClearClips on a table no other call is using: GetClips(ctx, ClearLimit, 0), then
\* the loop of Deletes
ClearRun(t) ==
    /\ th[t].pc = "clear"
    /\ ClearListed(t, ListResult(rows, files, [NoOpts EXCEPT !.limit = ClearLimit]))
    /\ UNCHANGED <<calls, firstStore, pasted>>
    /\ UNCHANGED svcVars

\* a table of one record more than ClearClips asks for, stored one after the other
LongTable ==
    [rows |-> [i \in 1 .. ClearLimit + 1 |->
                  RowOf([content |-> [fill |-> "a", len |-> i], type |-> "text",
                         sourceApp |-> <<>>, category |-> <<>>, tags |-> <<>>],
                        i, i, FALSE)],
     files |-> {}]

\* a caller has invoked ClearClips on a stored table
InitClr ==
    /\ \E st \in StoredStates \cup {LongTable} :
          /\ rows = st.rows /\ files = st.files
          /\ clock = 2 * Len(st.rows) + 1
    /\ th = [t \in Threads |->
                IF t = 1 THEN [IdleThread EXCEPT !.op = "clear", !.pc = "clear"]
                ELSE IdleThread]
    /\ calls = 1
    /\ firstStore = {}
    /\ deletedOk = {}
    /\ pasted = <<>>
    /\ handlers = <<>>
    /\ mu = [w |-> FALSE, r |-> 0]
    /\ wg = 0
    /\ monitor = "idle"
    /\ stop = "none"
    /\ tasks = [t \in Threads |-> IdleTask]
    /\ changes = 0
    /\ reg = NoReg
    /\ inFlightAtStop = {}

NextClr == \E t \in Threads : ClearRun(t)

SpecClr == InitClr /\ [][NextClr]_vars

(* ---------------- SyncService.sync: the vault export job ---------------- *)

\* clips, err := s.store.ListUnsynced(ctx, 100) // Adjust limit as needed
SyncLimit == 100

ErrSyncWrite == "failed to write file"
ErrSyncMark == "failed to mark clip as synced"

\* ListUnsynced(ctx, limit): [err, out]
ListUnsyncedResult(rws, fs, limit) ==
    LET ids == ListUnsyncedIds(rws, limit)
    IN  IF \E k \in 1 .. Len(ids) :
               rws[ids[k]].isExternal /\ ~FileExists(fs, rws[ids[k]].storagePath)
        THEN [err |-> ErrReadFile, out |-> <<>>]
        ELSE [err |-> ErrNone, out |-> [k \in 1 .. Len(ids) |-> Hydrated(rws[ids[k]], fs)]]

\* sync returns err: the pass is over, the ticker starts the next one
SyncReturn(cur, err) == [cur EXCEPT !.pc = "sync_idle", !.res = Result(err, NoClip)]

\* the loop of sync moves to its next clip, or sync returns nil after the last
SyncAdvance(cur) ==
    IF cur.k < Len(cur.out) THEN [cur EXCEPT !.k = cur.k + 1, !.pc = "sync_clip"]
    ELSE SyncReturn(cur, ErrNone)

\* a pass of the job starts: ListUnsynced(ctx, SyncLimit)
SyncStart(t) ==
    /\ th[t].pc = "sync_idle"
    /\ calls < MaxCalls
    /\ LET r == ListUnsyncedResult(rows, files, SyncLimit)
       IN  th' = [th EXCEPT ![t] =
                 IF r.err # ErrNone THEN SyncReturn(th[t], r.err)
                 ELSE IF r.out = <<>> THEN SyncReturn([th[t] EXCEPT !.out = <<>>], ErrNone)
                 ELSE [th[t] EXCEPT !.pc = "sync_clip", !.out = r.out, !.k = 1,
                                    !.at = rows]]
    /\ calls' = calls + 1
    /\ UNCHANGED <<rows, files, clock, firstStore, deletedOk, pasted>>
    /\ UNCHANGED svcVars

\* (mutant) a job that goes on to MarkAsSynced although os.WriteFile failed
NoteWriteFailedIgnored(err) == FALSE

\* if err := os.WriteFile(path, []byte(fileContent), 0644); err != nil { return ... }
NoteWriteFailed(err) == err # ErrNone

\* one clip of the list: skipped when its content is empty, else its entry is
\* appended to the note of its day
SyncClip(t) ==
    /\ th[t].pc = "sync_clip"
    /\ LET clip == th[t].out[th[t].k]
       IN  IF clip.content.len = 0
           THEN th' = [th EXCEPT ![t] = SyncAdvance(th[t])]
           ELSE \E fault \in BOOLEAN :
                    LET err == WriteErr(fault)
                        cur == IF err = ErrNone
                               THEN [th[t] EXCEPT !.vault = Append(@, clip.id)]
                               ELSE th[t]
                    IN  th' = [th EXCEPT ![t] =
                              IF NoteWriteFailed(err) THEN SyncReturn(cur, ErrSyncWrite)
                              ELSE [cur EXCEPT !.pc = "sync_mark"]]
    /\ UNCHANGED <<rows, files, clock, calls, firstStore, deletedOk, pasted>>
    /\ UNCHANGED svcVars

\* s.store.MarkAsSynced(ctx, clip.ID); an error ends the pass
SyncMark(t) ==
    /\ th[t].pc = "sync_mark"
    /\ LET id == th[t].out[th[t].k].id
       IN  /\ rows' = SetSynced(rows, id)
           /\ th' = [th EXCEPT ![t] =
                  IF id \in LiveIds(rows) THEN SyncAdvance(th[t])
                  ELSE SyncReturn(th[t], ErrSyncMark)]
    /\ clock' = clock + 1
    /\ UNCHANGED <<files, calls, firstStore, deletedOk, pasted>>
    /\ UNCHANGED svcVars

\* the job is stopped in the middle of a pass (the process ends and is started
\* again); the table and the vault stay as they are
SyncStopped(t) ==
    /\ th[t].pc \in {"sync_clip", "sync_mark"}
    /\ th' = [th EXCEPT ![t] =
           [SyncReturn(th[t], ErrNone) EXCEPT
               !.cut = IF th[t].pc = "sync_mark"
                       THEN @ \cup {th[t].out[th[t].k].id} ELSE @]]
    /\ UNCHANGED <<rows, files, clock, calls, firstStore, deletedOk, pasted>>
    /\ UNCHANGED svcVars

\* the job runs beside callers of Store and Delete
StoreCallSync(t) ==
    StoreCallOf(t, {EmptyContent} \cup
                   {p \in Payloads : p.fill = "a" /\ p.len <= MaxInlineStorageSize + 1},
                {NoMetadata})

InitSync ==
    /\ rows = <<>>
    /\ files = {}
    /\ clock = 1
    /\ th = [t \in Threads |->
                IF t = 1 THEN [IdleThread EXCEPT !.op = "sync", !.pc = "sync_idle"]
                ELSE IdleThread]
    /\ calls = 0
    /\ firstStore = {}
    /\ deletedOk = {}
    /\ pasted = <<>>
    /\ handlers = <<>>
    /\ mu = [w |-> FALSE, r |-> 0]
    /\ wg = 0
    /\ monitor = "idle"
    /\ stop = "none"
    /\ tasks = [t \in Threads |-> IdleTask]
    /\ changes = 0
    /\ reg = NoReg
    /\ inFlightAtStop = {}

NextSync ==
    \/ \E t \in Threads : StoreCallSync(t)
    \/ \E t \in Threads : StoreTouch(t)
    \/ \E t \in Threads : StoreWriteFile(t)
    \/ \E t \in Threads : StoreCreate(t)
    \/ \E t \in Threads : GetCall(t)
    \/ \E t \in Threads : GetReadFile(t)
    \/ \E t \in Threads : GetSave(t)
    \/ \E t \in Threads : DeleteCall(t)
    \/ \E t \in Threads : DeleteRemoveFile(t)
    \/ \E t \in Threads : DeleteRow(t)
    \/ \E t \in Threads : SyncStart(t)
    \/ \E t \in Threads : SyncClip(t)
    \/ \E t \in Threads : SyncMark(t)
    \/ \E t \in Threads : SyncStopped(t)

SpecSync == InitSync /\ [][NextSync]_vars

(* ---------------- properties of the record store ---------------- *)

\* a Store call that has returned
StoreReturned(t) == th[t].op = "store" /\ th[t].pc = "done"

\* C1: in every reachable state no two live records share a contentHash.
C1_UniqueContentHash ==
    \A i, j \in LiveIds(rows) : i # j => rows[i].contentHash # rows[j].contentHash

\* C1 witness: a Store that saw no record with its hash is about to Create while a
\* live record with that hash exists (a concurrent Store inserted it in between).
C1_Witness ==
    \E t \in Threads :
        /\ th[t].pc = "store_create"
        /\ \E i \in LiveIds(rows) : rows[i].contentHash = th[t].model.contentHash

\* C2: a Store of bytes whose record exists when it is called returns without
\* error the id given at that record's creation, the record still carries the
\* hash of the bytes, no second row with that hash exists, and its lastUsed is not
\* smaller than it was after the creating call -- whatever type the second call
\* passes.
C2_DedupIdempotent ==
    /\ \A t \in Threads :
          (StoreReturned(t) /\ th[t].live) =>
              LET h == calculateHash(th[t].content)
              IN  /\ th[t].res.err = ErrNone
                  /\ \E f \in firstStore :
                        /\ f.hash = h
                        /\ f.id = th[t].res.clip.id
                        /\ rows[f.id].contentHash = h
                        /\ rows[f.id].lastUsed >= f.lastUsed
    /\ \A f, g \in firstStore : f.hash = g.hash => f = g
    /\ \A i, j \in 1 .. Len(rows) : rows[i].contentHash = rows[j].contentHash => i = j

\* C2 witness: a deduplicated Store has returned whose type differs from the
\* stored record's, and the record's lastUsed has moved past its creation value.
C2_Witness ==
    \E t \in Threads :
        /\ StoreReturned(t) /\ th[t].live /\ th[t].dedup /\ th[t].res.err = ErrNone
        /\ th[t].type # rows[th[t].res.clip.id].type
        /\ \E f \in firstStore :
              f.id = th[t].res.clip.id /\ rows[f.id].lastUsed > f.lastUsed

\* C3 (as claimed): a Store within the ceiling that found no record with its hash,
\* raced with no other Store of the same bytes and met no file-system failure,
\* inserts a new record and returns it.
C3_FreshStoreSucceeds ==
    \A t \in Threads :
        (StoreReturned(t) /\ ~th[t].live /\ th[t].content.len <= MaxStorageSize
            /\ ~th[t].clash /\ th[t].res.err # ErrWriteFile)
            => /\ th[t].res.err = ErrNone
               /\ th[t].res.clip.id \in 1 .. Len(rows)

\* C4 (as claimed): every live row of a non-empty payload has exactly one of
\* content / storagePath populated.
C4_ExactlyOnePopulated ==
    \A i \in LiveIds(rows) :
        (rows[i].content.len > 0) # (rows[i].storagePath # <<>>)

C6_CeilingRejected ==
    /\ \A t \in Threads :
          (th[t].op = "store" /\ th[t].content.len > MaxStorageSize) =>
              /\ th[t].pc = "done"
              /\ th[t].res = Result(ErrFileTooLarge, NoClip)
    /\ \A i \in 1 .. Len(rows) : rows[i].size <= MaxStorageSize
    /\ \A f \in files : f.data.len <= MaxStorageSize

\* C6 witness: an oversized Store has been rejected in a state that already holds
\* records and blob files.
C6_Witness ==
    /\ \E t \in Threads :
          StoreReturned(t) /\ th[t].content.len = MaxStorageSize + 1
             /\ th[t].res.err = ErrFileTooLarge
    /\ Len(rows) > 0
    /\ files # {}

\* C9 (as claimed): once a row's syncedToVault is true, no step sets it back.
C9_SyncedNeverReversed ==
    [][\A i \in 1 .. Len(rows) : rows[i].synced => rows'[i].synced]_vars

\* C10 (as claimed): Store calls of pairwise distinct content, within the ceiling
\* and without file-system failure, all succeed and their records hold the bytes.
C10_DistinctStoresSucceed ==
    \A t \in Threads :
        (StoreReturned(t) /\ ~th[t].clash /\ th[t].content.len <= MaxStorageSize
            /\ th[t].res.err # ErrWriteFile)
            => /\ th[t].res.err = ErrNone
               /\ \E f \in firstStore :
                     f.id = th[t].res.clip.id /\ f.bytes = th[t].content

\* C11 (as claimed): once Delete(id) has returned nil, Get(id) finds no row (it
\* fails with "record not found"), neither List nor ListUnsynced returns the id, and
\* if the row was external its blob file was gone when Delete returned.
C11_DeletedStaysGone ==
    \A d \in deletedOk :
        /\ FindById(rows, d.id) = {}
        /\ d.id \notin Range(ListIds(rows, 0))
        /\ d.id \notin Range(ListUnsyncedIds(rows, 0))
        /\ ~d.blobLeft

\* C12: every step of Delete follows the contract.  A Delete of an id with no
\* live row ends at once with "record not found" and changes neither rows nor
\* files (so does a second Delete of a deleted id); otherwise an external row
\* goes to the blob removal first and an inline row straight to the row delete.
\* The blob step never touches the rows: a missing blob (ENOENT) is tolerated
\* and the call goes on to the row delete, a removed blob is gone, any other
\* error ends the call with "failed to delete external file" and leaves the
\* files as they were.  The row step returns nil and the row is no longer live.
C12_DeleteContract ==
    [][\A t \in Threads :
          LET a == th[t]
              b == th'[t]
          IN  /\ (calls' = calls + 1 /\ b # a /\ b.op = "delete") =>
                    IF b.id \in LiveIds(rows)
                    THEN /\ b.pc = IF rows[b.id].isExternal THEN "delete_file"
                                   ELSE "delete_row"
                         /\ b.rm = "none"
                    ELSE /\ b.pc = "done" /\ b.res.err = ErrRecordNotFound
                         /\ rows' = rows /\ files' = files
              /\ (a.pc = "delete_file" /\ b.pc # "delete_file") =>
                    /\ rows' = rows
                    /\ b.rm = ENOENT => b.pc = "delete_row" /\ files' = files
                    /\ b.rm = ErrNone =>
                          /\ b.pc = "delete_row"
                          /\ ~FileExists(files', a.model.storagePath)
                    /\ b.rm \notin {ENOENT, ErrNone} =>
                          /\ b.pc = "done" /\ b.res.err = ErrRemoveFile
                          /\ files' = files
              /\ (a.pc = "delete_row" /\ b.pc # "delete_row") =>
                    /\ b.pc = "done" /\ b.res.err = ErrNone
                    /\ a.model.isExternal => a.rm \in {ENOENT, ErrNone}
                    /\ a.model.id \notin LiveIds(rows')
                    /\ files' = files
      ]_vars

\* C12 witness: a Delete of an external record whose blob was already absent (a
\* concurrent Delete had removed it) has returned nil.
C12_Witness ==
    \E t \in Threads :
        /\ th[t].op = "delete" /\ th[t].pc = "done" /\ th[t].rm = ENOENT
        /\ th[t].res.err = ErrNone
        /\ \E d \in deletedOk : d.id = th[t].id /\ d.external

\* C13: Store never leaves a partial record.  The blob step never touches the
\* rows; when os.WriteFile fails the call ends there with "failed to write file"
\* and the files are as before, otherwise the blob holds the bytes and the call
\* goes on to the insert.  A row is inserted only by a Store at its insert step
\* whose blob write did not fail, and an external row only after a successful
\* blob write.  When the insert fails the call returns "failed to create clip",
\* no row is added or changed and no file is removed (the blob stays, an orphan).
C13_NoPartialRecord ==
    [][\A t \in Threads :
          LET a == th[t]
              b == th'[t]
          IN  /\ (a.pc = "store_write" /\ b.pc # "store_write") =>
                    /\ rows' = rows
                    /\ b.wrote = "failed" =>
                          /\ b.pc = "done" /\ b.res.err = ErrWriteFile
                          /\ files' = files
                    /\ b.wrote # "failed" =>
                          /\ b.pc = "store_create"
                          /\ [name |-> a.model.contentHash, data |-> a.content] \in files'
              /\ (a.pc = "store_create" /\ b.pc # "store_create") =>
                    /\ b.pc = "done"
                    /\ a.wrote # "failed"
                    /\ files' = files
                    /\ b.res.err # ErrNone =>
                          /\ b.res.err = ErrCreate
                          /\ rows' = rows
                    /\ b.res.err = ErrNone =>
                          /\ Len(rows') = Len(rows) + 1
                          /\ rows'[Len(rows')].isExternal => a.wrote = "ok"
              /\ Len(rows') > Len(rows) =>
                    \E u \in Threads : th[u].pc = "store_create" /\ th'[u].pc = "done"
      ]_vars

\* C13 witness: a Store of an external payload wrote its blob, failed at the
\* insert, and the blob is still there while no live row carries its hash.
C13_Witness ==
    \E t \in Threads :
        /\ StoreReturned(t) /\ th[t].wrote = "ok" /\ th[t].res.err = ErrCreate
        /\ FileExists(files, calculateHash(th[t].content))
        /\ \A i \in LiveIds(rows) : rows[i].contentHash # calculateHash(th[t].content)

\* a Delete of the id has removed the blob or the row
DeleteBegun(id) ==
    \/ \E d \in deletedOk : d.id = id
    \/ \E u \in Threads : th[u].op = "delete" /\ th[u].id = id /\ th[u].pc = "delete_row"

\* C14: a Get that returns a clip returns the id asked for and exactly the bytes
\* stored under it, inline or external, and the row's lastUsed is not smaller than
\* the value Get read -- and larger when no Delete of the id has begun.  A Get of
\* an id that was live at the call fails only when a Delete of that id has begun.
C14_RoundTrip ==
    \A t \in Threads :
        (th[t].op = "get" /\ th[t].pc = "done") =>
            /\ th[t].res.err = ErrNone =>
                  \E f \in firstStore :
                      /\ f.id = th[t].id
                      /\ th[t].res.clip.id = f.id
                      /\ th[t].res.clip.content = f.bytes
                      /\ rows[f.id].lastUsed >= th[t].seen
                      /\ ~DeleteBegun(f.id) => rows[f.id].lastUsed > th[t].seen
            /\ th[t].res.err # ErrNone =>
                  \/ th[t].res.err = ErrRecordNotFound /\ ~th[t].live
                  \/ th[t].res.err = ErrReadFile /\ DeleteBegun(th[t].id)

\* C14 witness: a Get of an external record has returned the stored bytes and the
\* row's lastUsed has moved past the value Get read.
C14_Witness ==
    \E t \in Threads :
        /\ th[t].op = "get" /\ th[t].pc = "done" /\ th[t].res.err = ErrNone
        /\ \E f \in firstStore :
              /\ f.id = th[t].id
              /\ f.bytes.len > MaxInlineStorageSize
              /\ th[t].res.clip.content = f.bytes
              /\ rows[f.id].lastUsed > th[t].seen

\* C23: a MarkAsSynced(id) call on a live row returns nil and leaves the table as it
\* was except that the row's synced flag is true (so nothing changes when it already
\* was); on an id without a live row it fails with "no clip found" and changes
\* nothing; blob files are never touched.
C23_MarkSyncedContract ==
    [][\A t \in Threads :
          (Free(t) /\ calls' = calls + 1 /\ th'[t].op = "mark")
              => LET id == th'[t].id
                 IN  /\ files' = files
                     /\ IF id \in LiveIds(rows)
                        THEN /\ th'[t].res.err = ErrNone
                             /\ rows' = [rows EXCEPT ![id].synced = TRUE]
                             /\ rows[id].synced => rows' = rows
                        ELSE /\ th'[t].res.err = ErrNoClip
                             /\ rows' = rows]_vars

\* C23 witness: a second MarkAsSynced of a record has returned nil.
C23_Witness ==
    \E t \in Threads :
        /\ th[t].op = "mark" /\ th[t].pc = "done" /\ th[t].was
        /\ th[t].res.err = ErrNone
        /\ rows[th[t].id].synced

\* C24 (as claimed): ListUnsynced(limit) returns only rows whose synced flag is
\* false, newest created first, at most limit of them when limit > 0, and after a
\* MarkAsSynced(id) has returned nil no ListUnsynced returns id.
C24_UnsyncedListing ==
    /\ \A limit \in 0 .. Len(rows) + 1 :
           LET ids == ListUnsyncedIds(rows, limit)
           IN  /\ limit > 0 => Len(ids) <= limit
               /\ \A k \in 1 .. Len(ids) :
                      /\ ~rows[ids[k]].synced
                      /\ \A j \in 1 .. k - 1 :
                             rows[ids[j]].createdAt >= rows[ids[k]].createdAt
    /\ \A t \in Threads :
           (th[t].op = "mark" /\ th[t].pc = "done" /\ th[t].res.err = ErrNone)
               => th[t].id \notin Range(ListUnsyncedIds(rows, 0))

\* the fields of a row that are fixed at its creation
Identity(r) ==
    [id |-> r.id, contentHash |-> r.contentHash, size |-> r.size, type |-> r.type,
     sourceApp |-> r.sourceApp, category |-> r.category, tags |-> r.tags,
     createdAt |-> r.createdAt]

\* C33: the row of every record carries the id, contentHash, size, type, metadata
\* and createdAt it was created with, whatever Store, Get, Delete and MarkAsSynced
\* calls have run on it since.
C33_IdentityImmutable ==
    \A f \in firstStore : Identity(rows[f.id]) = Identity(f.created)

\* C33 witness: a Store of the bytes of an existing record with another type has
\* touched the record, which was created with metadata and has been marked synced.
C33_Witness ==
    \E f \in firstStore :
        /\ rows[f.id].lastUsed > f.lastUsed
        /\ rows[f.id].synced
        /\ \E t \in Threads :
              /\ StoreReturned(t) /\ th[t].dedup /\ th[t].res.err = ErrNone
              /\ th[t].res.clip.id = f.id
              /\ th[t].type # rows[f.id].type
        /\ rows[f.id].sourceApp # <<>>

\* C37 (as claimed): two Store calls of the same bytes that ran at the same time,
\* neither hitting a failing os.WriteFile, both return nil and the same id.
C37_ConcurrentSameBytes ==
    \A t, u \in Threads :
        (/\ t # u /\ StoreReturned(t) /\ StoreReturned(u)
         /\ th[t].content = th[u].content /\ th[t].clash /\ th[u].clash
         /\ th[t].content.len <= MaxStorageSize
         /\ th[t].res.err # ErrWriteFile /\ th[u].res.err # ErrWriteFile)
            => /\ th[t].res.err = ErrNone /\ th[u].res.err = ErrNone
               /\ th[t].res.clip.id = th[u].res.clip.id

\* C38 (as claimed): a record whose Delete has returned nil is not live, whatever
\* Get or Store had read its row before the Delete and saves it afterwards; so no
\* such record is live as an external row whose blob file is gone.
C38_NoResurrection ==
    \A d \in deletedOk :
        /\ d.id \notin LiveIds(rows)
        /\ ~(/\ d.id \in LiveIds(rows) /\ rows[d.id].isExternal
             /\ ~FileExists(files, rows[d.id].storagePath))

(* ---------------- properties of the index lookups ---------------- *)

\* the live rows of table tbl with a lastUsed later than row i's
Newer(tbl, i) == {j \in LiveIds(tbl) : tbl[j].lastUsed > tbl[i].lastUsed}

C16_NegativeIndexError ==
    \A t \in Threads :
        (th[t].op \in {"index", "paste"} /\ th[t].pc = "done" /\ th[t].n < 0) =>
            th[t].res.err \in {ErrClipNotFound, ErrListClips, ErrRetrieveClip}

\* C17: a PasteByIndex whose lookup failed returns "failed to retrieve clip" and
\* has not invoked monitor.SetContent (nor has one whose lookup panicked); one
\* whose lookup resolved a clip has invoked SetContent with exactly that clip's
\* bytes and type, and returns nil if SetContent succeeded and "failed to set
\* clipboard content" if it failed; the two messages differ.  SetContent is only
\* ever invoked with the bytes of a stored record.
C17_PasteFailuresDistinct ==
    /\ ErrRetrieveClip # ErrSetClipboard
    /\ \A t \in Threads :
          (th[t].op = "paste" /\ th[t].pc = "done") =>
              /\ th[t].lookup \in {ErrClipNotFound, ErrListClips} =>
                    th[t].res.err = ErrRetrieveClip /\ th[t].sets = 0
              /\ th[t].lookup = PanicIndex =>
                    th[t].res.err = PanicIndex /\ th[t].sets = 0
              /\ th[t].lookup = ErrNone =>
                    /\ th[t].sets \in 1 .. Len(pasted)
                    /\ pasted[th[t].sets].clip.content = th[t].got.content
                    /\ pasted[th[t].sets].clip.type = th[t].got.type
                    /\ th[t].got.content.len > 0
                    /\ th[t].res.err =
                          IF pasted[th[t].sets].failed THEN ErrSetClipboard ELSE ErrNone
              /\ th[t].lookup \in {ErrClipNotFound, ErrListClips, PanicIndex, ErrNone}
    /\ \A k \in 1 .. Len(pasted) :
          \E f \in firstStore :
              f.id = pasted[k].clip.id /\ f.bytes = pasted[k].clip.content

\* C17 witness: one PasteByIndex has failed at the lookup with nothing set, while
\* another has set the clipboard to the record it resolved and failed there.
C17_Witness ==
    /\ \E t \in Threads :
          th[t].op = "paste" /\ th[t].pc = "done" /\ th[t].res.err = ErrRetrieveClip
             /\ th[t].sets = 0
    /\ \E t \in Threads :
          th[t].op = "paste" /\ th[t].pc = "done" /\ th[t].res.err = ErrSetClipboard
             /\ pasted[th[t].sets].clip = th[t].got

(* ---------------- properties of the service ---------------- *)

\* C7 (as claimed): handlers are invoked for a change only if it ended stored or
\* deduplicated.
C7_NotifiedOnlyWhenStored ==
    \A t \in Threads :
        tasks[t].notified # <<>> => tasks[t].outcome \in {"stored", "deduplicated"}

\* C8 (as claimed): whenever Stop() has returned, no goroutine started before the
\* return was still running at the return.
C8_StopWaitsForTasks ==
    stop \in {"returned_ok", "returned_err"} => inFlightAtStop = {}

\* the handlers goroutine t has invoked so far, the one still running included
Invoked(t) ==
    IF tasks[t].pc = "in_handler"
        THEN SubSeq(tasks[t].snap, 1, Len(tasks[t].notified) + 1)
        ELSE tasks[t].notified

\* C18 (as claimed): when a goroutine has invoked a handler for a change, Store had
\* returned without error for that change before the first invocation, and the
\* handlers were invoked one after the other in registration order.
C18_StoredBeforeNotified ==
    \A t \in Threads :
        Invoked(t) # <<>>
            => /\ tasks[t].outcome \in {"stored", "deduplicated"}
               /\ \A i \in 1 .. Len(Invoked(t)) : Invoked(t)[i] = i

\* C19: s.mu is never held by a goroutine that is running its handlers, so a
\* RegisterHandler call waiting for the lock, made by the application while a
\* handler is blocked or made by a running handler itself, waits only for
\* goroutines that are between RLock and RUnlock and release it in their next step;
\* once it holds the lock it appends and unlocks.
C19_RegistryLockNotHeldInHandlers ==
    /\ mu.r = Cardinality({t \in Threads : tasks[t].rlocked})
    /\ ~(mu.w /\ mu.r > 0)
    /\ mu.w <=> reg.pc = "locked"
    /\ \A t \in Threads :
           tasks[t].rlocked => tasks[t].active /\ tasks[t].pc = "notify_copy"
    /\ reg.by # 0 => tasks[reg.by].pc = "in_handler" /\ ~tasks[reg.by].rlocked
    /\ reg.pc = "waiting"
           => \/ ~mu.w /\ mu.r = 0
              \/ \E t \in Threads : tasks[t].active /\ tasks[t].pc = "notify_copy"

\* C19 witness: a RegisterHandler call made from inside a running handler holds the
\* lock while another goroutine is still inside a handler.
C19_Witness ==
    /\ reg.pc = "locked" /\ reg.by # 0
    /\ \E u \in Threads \ {reg.by} : tasks[u].active /\ tasks[u].pc = "in_handler"

\* C20: handleClipboardChange on a clip with empty content returns nil, does not call
\* Store, and leaves the rows and the blob files as they were.
C20_EmptyChangeIgnored ==
    [][\A t \in Threads :
          (tasks[t].active /\ tasks[t].pc = "handle"
              /\ tasks[t].clip.content.len = 0 /\ tasks'[t] # tasks[t])
              => /\ tasks'[t].outcome = "empty"
                 /\ tasks'[t].pc = "notify_rlock"
                 /\ th'[t] = th[t]
                 /\ rows' = rows
                 /\ files' = files]_vars

\* C21: when Store returns to handleClipboardChange, ErrFileTooLarge is the one error
\* turned into a nil return (the goroutine goes on); any other error is returned
\* wrapped in a ClipboardError naming the operation and carrying the error, and the
\* goroutine ends; either way the monitor keeps running.
C21_OnlyTooLargeSwallowed ==
    [][\A t \in Threads :
          (tasks[t].active /\ tasks[t].pc = "storing" /\ th[t].pc = "done"
              /\ tasks'[t] # tasks[t])
              => LET e == th[t].res.err
                 IN  /\ e \in {ErrNone, ErrFileTooLarge}
                        => /\ HandleErr(e) = NoError
                           /\ tasks'[t].active /\ tasks'[t].pc = "notify_rlock"
                           /\ wg' = wg
                     /\ e = ErrFileTooLarge => tasks'[t].outcome = "too_large"
                     /\ e \notin {ErrNone, ErrFileTooLarge}
                        => /\ HandleErr(e).err = e
                           /\ HandleErr(e).op = "handleClipboardChange"
                           /\ ~tasks'[t].active
                           /\ wg' = wg - 1
                     /\ monitor' = monitor /\ monitor = "running"]_vars

\* C21 witness: one change was skipped as too large, the Store of another has just
\* failed with another error, and the monitor is running.
C21_Witness ==
    /\ monitor = "running"
    /\ \E t, u \in Threads :
          /\ tasks[t].active /\ tasks[t].outcome = "too_large"
          /\ tasks[u].active /\ tasks[u].pc = "storing" /\ th[u].pc = "done"
          /\ th[u].res.err \notin {ErrNone, ErrFileTooLarge}

\* C22: while the monitor runs, the callback can take the next change whatever the
\* goroutines of earlier changes are doing, in particular while one of them is
\* inside a Store call that has not returned.
C22_CallbackNeverWaits ==
    (monitor = "running" /\ changes < MaxChanges)
        => ENABLED (\E t \in Threads : OnChange(t))

\* C22 witness: the goroutine of the first change is still inside its Store call
\* while the goroutine of the second change has already ended.
C22_Witness ==
    /\ changes = 2
    /\ \E t \in Threads :
          /\ tasks[t].active /\ tasks[t].seq = 1
          /\ tasks[t].pc = "storing" /\ th[t].pc # "done"
          /\ \A u \in Threads \ {t} : ~tasks[u].active

\* C20 witness: an empty change was handled while the store held a record and a blob
\* file.
C20_Witness ==
    /\ \E t \in Threads : tasks[t].active /\ tasks[t].outcome = "empty"
    /\ Len(rows) > 0
    /\ files # {}

(* ---------------- properties of the queries ---------------- *)

\* a List or Search call that has returned
Returned(t, op) == th[t].op = op /\ th[t].pc = "done"

\* the ids of the clips a call returned, in order
OutIds(t) == [k \in 1 .. Len(th[t].out) |-> th[t].out[k].id]

\* C25: a List with no filter but Limit L and Offset O that returns clips returns
\* live records in strictly descending lastUsed order, the k-th of them being the
\* live record with exactly O + k - 1 live records used later; it returns all the
\* live records when L = 0 and O = 0, and min(L, n - O) of the n when L > 0.  It
\* fails only when the blob of a live external record is missing.
C25_ListOrderAndPage ==
    \A t \in Threads :
        (Returned(t, "list") /\ th[t].opts.type = "" /\ th[t].opts.category = <<>>
            /\ th[t].opts.tags = <<>>) =>
            LET out == th[t].out
                L == th[t].opts.limit
                O == th[t].opts.offset
                n == Cardinality(LiveIds(rows))
                rest == IF n > O THEN n - O ELSE 0
            IN  /\ th[t].res.err \in {ErrNone, ErrReadFile}
                /\ th[t].res.err = ErrReadFile =>
                       \E i \in LiveIds(rows) :
                           rows[i].isExternal /\ ~FileExists(files, rows[i].storagePath)
                /\ th[t].res.err = ErrNone =>
                       /\ \A k \in 1 .. Len(out) :
                              /\ out[k].id \in LiveIds(rows)
                              /\ Cardinality(Newer(rows, out[k].id)) = O + k - 1
                       /\ \A k \in 1 .. Len(out) - 1 :
                              out[k].lastUsed > out[k + 1].lastUsed
                       /\ L = 0 => Len(out) = rest
                       /\ L > 0 => Len(out) = (IF L < rest THEN L ELSE rest)

\* C25 witness: with two live records, List(Limit 1, Offset 1) has returned the one
\* used earlier.
C25_Witness ==
    \E t \in Threads :
        /\ Returned(t, "list") /\ th[t].res.err = ErrNone
        /\ th[t].opts.limit = 1 /\ th[t].opts.offset = 1
        /\ Cardinality(LiveIds(rows)) = 2
        /\ Len(th[t].out) = 1
        /\ \E j \in LiveIds(rows) : rows[j].lastUsed > th[t].out[1].lastUsed

\* the token q occurs in the payload, whatever the casing of either
Occurs(q, content) ==
    /\ Len(q) <= content.len
    /\ \A k \in 1 .. Len(q) : LowerChar(q[k]) = LowerChar(content.fill)

\* a Search with a query and no other option
QueryOnly(t) ==
    /\ Returned(t, "search")
    /\ th[t].opts.query # <<>>
    /\ th[t].opts = [NoOpts EXCEPT !.query = th[t].opts.query]

\* C26: a Search(query = q) returns every live external record of type text whose
\* blob is in the blob directory and contains q in some casing.
C26_SearchReachesExternal ==
    \A t \in Threads :
        QueryOnly(t) =>
            \A i \in LiveIds(rows) :
                (/\ rows[i].type = "text" /\ rows[i].isExternal
                 /\ \E f \in files :
                       f.name = rows[i].storagePath /\ Occurs(th[t].opts.query, f.data))
                    => i \in Range(OutIds(t))

\* C26 witness: a Search for "aA" has returned an external record whose blob is a
\* run of "a" or of "A" and whose hash and metadata do not contain "aa".
C26_Witness ==
    \E t \in Threads :
        /\ QueryOnly(t) /\ th[t].opts.query = <<"a", "A">>
        /\ \E k \in 1 .. Len(th[t].out) :
              LET r == rows[th[t].out[k].id]
              IN  /\ r.isExternal
                  /\ ~TextMatch(r, <<"a", "a">>)
                  /\ th[t].out[k].content.len > MaxInlineStorageSize

\* q occurs in the string s, whatever the casing of either
OccursIn(q, s) ==
    \E i \in 0 .. Len(s) - Len(q) :
        \A k \in 1 .. Len(q) : LowerChar(s[i + k]) = LowerChar(q[k])

\* the bytes stored as record r: the row's content, or its blob
PayloadOf(r) ==
    IF r.isExternal
        THEN IF FileExists(files, r.storagePath) THEN ReadFile(files, r.storagePath)
             ELSE EmptyContent
        ELSE r.content

\* the matching rule: q occurs in the content of a text record, or in the content
\* hash, the sourceApp, the category or a tag of a record of any type
Matches(r, q) ==
    \/ r.type = "text" /\ Occurs(q, PayloadOf(r))
    \/ OccursIn(q, r.contentHash)
    \/ OccursIn(q, r.sourceApp)
    \/ OccursIn(q, r.category)
    \/ \E k \in 1 .. Len(r.tags) : OccursIn(q, r.tags[k])

\* C27 (as claimed): a Search(query = q) returns exactly the live records that match
\* q by the matching rule.
C27_SearchMatchingRule ==
    \A t \in Threads :
        QueryOnly(t) =>
            Range(OutIds(t)) = {i \in LiveIds(rows) : Matches(rows[i], th[t].opts.query)}

\* record r passes every filter that the options o supply
PassesFilters(r, o) ==
    /\ o.type # "" => r.type = o.type
    /\ o.sourceApp # <<>> => r.sourceApp = o.sourceApp
    /\ o.category # <<>> => r.category = o.category
    /\ o.from # 0 => r.createdAt >= o.from
    /\ o.to # 0 => r.createdAt <= o.to

\* C28 (as claimed): every record a Search returns passes all the supplied type,
\* sourceApp, category and createdAt-range filters.
C28_SearchFiltersAllApply ==
    \A t \in Threads :
        Returned(t, "search") =>
            \A k \in 1 .. Len(th[t].out) :
                PassesFilters(rows[th[t].out[k].id], th[t].opts)

\* a List or Search whose only option is a tag set
TagsOnly(t) ==
    /\ th[t].op \in {"list", "search"} /\ th[t].pc = "done"
    /\ th[t].opts.tags # <<>>
    /\ th[t].opts = [NoOpts EXCEPT !.tags = th[t].opts.tags]

\* record r carries every tag of the sequence T as one of its tags
HasAllTags(r, T) == \A k \in 1 .. Len(T) : \E j \in 1 .. Len(r.tags) : r.tags[j] = T[k]

\* C29 (as claimed): a List or Search with tag set T and no other option does not
\* fail on the query, and the records it returns are exactly the live records that
\* carry every tag of T as a whole tag.
C29_TagFilterExact ==
    \A t \in Threads :
        TagsOnly(t) =>
            /\ th[t].res.err \in {ErrNone, ErrReadFile}
            /\ th[t].res.err = ErrNone =>
                   Range(OutIds(t)) = {i \in LiveIds(rows) : HasAllTags(rows[i], th[t].opts.tags)}

\* a Search whose only options are the sort options and the page
SortOnly(t) ==
    /\ Returned(t, "search")
    /\ th[t].opts = [NoOpts EXCEPT !.sortBy = th[t].opts.sortBy,
                                   !.sortOrder = th[t].opts.sortOrder,
                                   !.limit = th[t].opts.limit,
                                   !.offset = th[t].opts.offset]

\* the order the sort options define: the selected key and direction when SortBy
\* selects createdAt or lastUsed, lastUsed descending otherwise
DefinedOrder(S, rws, o) ==
    LET asc == o.sortOrder \in {"asc", "ASC"}
    IN  IF o.sortBy = "created_at"
            THEN OrderBy(S, [i \in S |-> rws[i].createdAt], asc)
        ELSE IF o.sortBy = "last_used"
            THEN OrderBy(S, [i \in S |-> rws[i].lastUsed], asc)
        ELSE OrderDesc(S, [i \in S |-> rws[i].lastUsed])

\* C30 (as claimed): the clips a Search returns are the page, by Limit and Offset,
\* of the live records in the order its sort options define, for every value of
\* the sort options.
C30_SearchOrderDefined ==
    \A t \in Threads :
        SortOnly(t) =>
            OutIds(t) = Page(DefinedOrder(LiveIds(rows), rows, th[t].opts),
                             th[t].opts.limit, th[t].opts.offset)

C32_MissingBlobReported ==
    \A t \in Threads :
        (th[t].pc = "done" /\ th[t].op \in {"list", "search"} /\ th[t].res.err = ErrNone) =>
            \A k \in 1 .. Len(th[t].out) :
                LET r == rows[th[t].out[k].id]
                IN  r.isExternal => FileExists(files, r.storagePath)

\* C34 (as claimed): when ClearClips has returned nil, no record of the table is
\* live and the blob of no external record that was live at the call is left.
C34_ClearLeavesNothing ==
    \A t \in Threads :
        (th[t].op = "clear" /\ th[t].pc = "done" /\ th[t].res.err = ErrNone) =>
            /\ LiveIds(rows) = {}
            /\ \A i \in LiveIds(th[t].at) :
                   th[t].at[i].isExternal => ~FileExists(files, th[t].at[i].storagePath)

(* ---------------- properties of the export job ---------------- *)

\* the number of entries the vault holds for clip i
Entries(v, i) == Cardinality({k \in 1 .. Len(v) : v[k] = i})

\* C35: with the export job the only caller of MarkAsSynced, every record whose
\* synced flag is set has an entry in the vault; the job calls MarkAsSynced for a
\* clip only with its entry written; a pass lists every record that is live and
\* unsynced when it starts, unless it lists SyncLimit records; and a record at which
\* a pass was stopped between the write and MarkAsSynced is synced only once a
\* later pass has written it again.
C35_SyncedOnlyAfterExport ==
    \A t \in Threads :
        th[t].op = "sync" =>
            /\ \A i \in 1 .. Len(rows) : rows[i].synced => Entries(th[t].vault, i) >= 1
            /\ th[t].pc = "sync_mark" => Entries(th[t].vault, th[t].out[th[t].k].id) >= 1
            /\ th[t].pc \in {"sync_clip", "sync_mark"} =>
                   \A i \in LiveIds(th[t].at) :
                       ~th[t].at[i].synced =>
                           \/ \E k \in 1 .. Len(th[t].out) : th[t].out[k].id = i
                           \/ Len(th[t].out) = SyncLimit
            /\ \A i \in th[t].cut : rows[i].synced => Entries(th[t].vault, i) >= 2

\* C35 witness: a record at which a pass was stopped after the write has been
\* written again and marked synced by the next pass.
C35_Witness ==
    \E t \in Threads :
        /\ th[t].op = "sync"
        /\ \E i \in th[t].cut : rows[i].synced /\ Entries(th[t].vault, i) = 2

\* a Search, GetRecent, GetMostUsed or GetByType call that has returned
SearchReturned(t) ==
    th[t].op \in {"search", "recent", "mostused", "bytype"} /\ th[t].pc = "done"

\* C36: of any two results of a search the one whose record was used no later has
\* no greater score, and the LastUsed of every result is the lastUsed of its record.
C36_ScoreMonotonic ==
    \A t \in Threads :
        SearchReturned(t) =>
            LET out == th[t].out
            IN  /\ \A j, k \in 1 .. Len(out) :
                       rows[out[j].id].lastUsed <= rows[out[k].id].lastUsed
                           => out[j].score <= out[k].score
                /\ \A k \in 1 .. Len(out) : out[k].lastUsed = rows[out[k].id].lastUsed

\* C36 witness: a search has returned two results with different scores.
C36_Witness ==
    \E t \in Threads :
        /\ SearchReturned(t)
        /\ \E j, k \in 1 .. Len(th[t].out) : th[t].out[j].score < th[t].out[k].score
\* C39: once Stop() has passed its monitor.Stop() call -- while it waits in
\* wg.Wait() or after it has returned nil -- the callback no longer runs: the task
\* counter is not incremented and no goroutine that would call Store is started.
C39_NoTaskAfterStop ==
    [][(stop \in {"waiting", "returned_ok"})
          => (/\ wg' <= wg
              /\ \A t \in Threads : tasks'[t].active => tasks[t].active)]_vars

\* a GetClipByIndex(n) that has returned, called on the table as it still is, with
\* the blob of every live external record still in place: no Store, Get or Delete
\* has written a row or removed a blob since the call
SameStoreLookup(t, n) ==
    /\ th[t].op = "index" /\ th[t].pc = "done" /\ th[t].n = n
    /\ th[t].at = rows
    /\ \A i \in LiveIds(rows) :
          rows[i].isExternal => FileExists(files, rows[i].storagePath)

\* C40: every step of GetClipByIndex, PasteByIndex and the List under them leaves
\* the table and the blob directory as they were (lastUsed and every other field
\* of every record), and two GetClipByIndex(n) calls with no write to the store
\* between them return the same result.
C40_LookupsReadOnly ==
    /\ [](\A t, u \in Threads :
            (t < u /\ SameStoreLookup(t, th[t].n) /\ SameStoreLookup(u, th[t].n))
                => th[t].res = th[u].res)
    /\ [][(\E t \in Threads : th'[t].op \in {"index", "paste"} /\ th'[t] # th[t])
             => (rows' = rows /\ files' = files /\ clock' = clock)]_vars

\* C40 witness: two GetClipByIndex(0) calls have both returned the most recent
\* record, an external one read from its blob, and the table still is what both
\* calls listed.
C40_Witness ==
    \E t, u \in Threads :
        /\ t # u
        /\ SameStoreLookup(t, 0) /\ SameStoreLookup(u, 0)
        /\ th[t].res.err = ErrNone
        /\ th[t].res.clip.id \in LiveIds(rows)
        /\ rows[th[t].res.clip.id].isExternal

====
